---- MODULE Spec2Model ----
(***************************************************************************)
(* Model of the robots game server (src/robots-server.cpp): the engine     *)
(* thread (mainLoop), the main thread (signal wait and shutdown), and per  *)
(* connection a listener thread and an emitter thread, with the linked     *)
(* broadcast queue they share.                                             *)
(***************************************************************************)
EXTENDS Integers, Sequences, FiniteSets, Bags, TLC

\* ------------------------------------------------------------------ bounds
\* ClientConnection objects that are ever created (the last one stays in
\* accept): MaxConn - 1 clients connect.
MaxConn == 3
\* ClientMessages the clients send in a run.
MaxMsgs == 2
\* Connections that fail on the client's side (EOF, I/O error, bad tag) in a run.
MaxFails == 1
\* ClientMessages the clients send in a run in which a connection fails.
FailMsgs == 1
\* Clients that connect in a run that SIGINT interrupts.
ShutdownConns == 1
\* Largest configured --players-count and --game-length drawn by Init.
MaxPlayers == 2
MaxGameLength == 1
\* Clients that connect, and ClientMessages they send, in a run with a game of
\* the greatest length.
LongGameConns == 1
LongGameMsgs == 1
\* Connections whose listener and emitter threads take the server's mutexes.
LockConns == 2
\* The simulated game: the board's --size-x and --size-y, the largest
\* --explosion-radius, --bomb-timer, --initial-blocks and --seed drawn by Init, the
\* --game-length, and the ClientMessages (Join included) the clients send.
MaxSizeX == 3
MaxSizeY == 2
MaxRadius == 2
MaxBombTimer == 2
MaxInitialBlocks == 1
MaxSeed == 2
GameTurns == 3
GameInputs == 4
\* The GUI: the largest byte and the length of the datagrams it sends, their
\* number, the length of --player-name, and the ClientMessages the clients
\* send meanwhile.
MaxDatagramByte == 4
MaxDatagramLen == 2
GuiDatagrams == 2
MaxNameLen == 1
GuiInputs == 1
\* The codec: the longest list of a message, and a uint16_t and a uint32_t
\* value whose bytes all differ.
MaxListLen == 2
WideU16 == 258
WideU32 == 16909060
\* Tag validation: the largest tag byte received, and the number of bytes
\* that follow it.
MaxTag == 5
MaxFollowing == 8
\* The bytes by which the longest --player-name and --server-name drawn
\* exceed MaxStringLen.
MaxExcess == 2
\* The start of a game: the largest --initial-blocks, the --game-length, and
\* the ClientMessages the clients send.
\* The pending messages: the clients that connect, the ClientMessages they
\* send, and the --game-length.
PendingConns == 1
PendingMsgs == 4
PendingTurns == 2
\* The lobby under fair scheduling: the ClientMessages the clients send.
JoinMsgs == 2
MaxStartBlocks == 3
StartTurns == 1
StartInputs == 2

\* Width of the uint16_t turn counter.
TurnModulus == 65536
\* Width of a byte, the greatest uint8_t and uint16_t, and the longest string
\* whose size a uint8_t holds.
ByteModulus == 256
MaxU8 == 255
MaxU16 == 65535
MaxStringLen == 255
\* Random's multiplier and modulus.
RandomConstant == 48271
RandomModulo == 2147483647

Conns == 0 .. (MaxConn - 1)

\* The values of --game-length drawn by Init.
GameLengths == 0 .. MaxGameLength
\* The shortest and the longest game a uint16_t --game-length configures.
ExtremeGameLengths == {0, TurnModulus - 1}

\* ------------------------------------------------------------------ nodes
\* A ServerMessageQueue node is an integer: 0 is nullptr, k > 0 is the k-th
\* node appended to the broadcast queue, and a negative number is a node that
\* one connection owns: its initial dummy (D0), the dummy the listener
\* installs once accepted (D1), its copy of Hello (H) and the two dummies the
\* listener's catch block installs (E1 -> E2).
NULL == 0
D0(c) == 0 - (c * 8 + 1)
D1(c) == 0 - (c * 8 + 2)
H(c) == 0 - (c * 8 + 3)
E1(c) == 0 - (c * 8 + 4)
E2(c) == 0 - (c * 8 + 5)
PrivNodes == UNION {{D0(c), D1(c), H(c)} : c \in Conns}
IsQ(n) == n > 0
IsHello(n) == \E c \in Conns : n = H(c)
IsDummy(n) == n < 0 /\ ~IsHello(n)

VARIABLES
    \* configuration (Server constructor)
    playerCount, gameLength,
    \* Server members
    state, clients, nextConnectionID, pendingMessages, isShutdown,
    joinedPlayers, acceptedPlayerMessagesHead, currentGameMessagesHead,
    messageQueueTail, serverMutex, acceptorOpen,
    \* the broadcast queue: the messages of the nodes appended so far, and
    \* each node's next pointer; pnext holds the next pointers of D0, D1, H
    queue, qnext, pnext,
    \* ClientConnection members, per connection
    sock, disconnected, joined, inMessage, inMessagePending, head, tail,
    \* thread positions
    lpc, epc, gpc, mpc,
    \* engine locals: collectPlayers' iterators, pushToAllConnections'
    \* iterator, runGame's turn
    connectionIterator, currentIterator, pushIterator, turn,
    \* exception slot of the process, and whether it is still running
    exceptionPtr, engineException, proc,
    \* environment: SIGINT delivered; ClientMessages still to be sent;
    \* connections that may still fail on the client's side; clients that may
    \* still connect
    sigint, msgsLeft, failsLeft, acceptsLeft,
    \* history: the nodes each emitter wrote; the queue node each listener
    \* attached its connection to; whether the connection was accepted during
    \* a game and its listener has not attached it yet
    sent, attached, acceptedInGame,
    \* configuration of the game (Server constructor)
    sizeX, sizeY, explosionRadius, bombTimer, initialBlocks,
    \* the simulation: where the engine is in mainLoop; joinedPlayers'
    \* positions by player ID; the Server members of the game; runGame's turn
    simPc, position, blocks, bombs, nextBombID, playerScores,
    playersByPosition, blocksDestroyed, playersDestroyed, simTurn, seed,
    \* the server messages sent to the client and not yet read by it
    wire,
    \* history: the events of the Turn messages of the game so far; blocks
    \* and the positions as they were when the last turn began
    turnLog, blocksBefore, positionBefore,
    \* environment: ClientMessages the clients may still send in the simulation
    inputsLeft,
    \* Client members, and listenToServer's inMessage
    clientState, inServerMessage, outDrawMessage, activeBombs,
    destroyedPlayers, destroyedBlocks,
    \* history: outDrawMessage before the last message was folded; the
    \* DrawMessages sent to the GUI through listenToServer's GUIBufferOut
    prevDrawMessage, GUIBufferOut,
    \* --player-name; listenToGUI's position and inMessage; the Client member
    \* outClientMessage; the messages written to the server's socket
    playerName, guiPc, guiInMessage, outClientMessage, toServer,
    \* history: the datagram being handled; for each datagram handled, the
    \* client's state and the bytes sent for it
    guiDatagram, guiLog,
    \* environment: datagrams the GUI may still send
    datagramsLeft,
    \* a message of one class: where it is between operator<< and
    \* operator>>, its class, the value encoded, the bytes that follow it in
    \* the stream, the bytes in the receiver's buffer, and what operator>>
    \* yields
    codecPc, codecFamily, codecValue, codecSuffix, codecBytes, codecDecoded,
    \* the mutexes of the server: for each thread the mutexes it holds, in
    \* the order it acquired them, and the lock operations left in the block
    \* of code it is executing
    locksHeld, lockScript,
    \* the client's threads: the holder of Client::variablesMutex; where
    \* listenToGUI, listenToServer and main are; the client's exceptionPtr;
    \* whether main has closed the sockets
    variablesMutex, GUIListener, serverListener, clientMain,
    clientExceptionPtr, clientSockets

vars == <<playerCount, gameLength, state, clients, nextConnectionID,
          pendingMessages, isShutdown, joinedPlayers,
          acceptedPlayerMessagesHead, currentGameMessagesHead,
          messageQueueTail, serverMutex, acceptorOpen, queue, qnext, pnext,
          sock, disconnected, joined, inMessage, inMessagePending, head, tail,
          lpc, epc, gpc, mpc, connectionIterator, currentIterator,
          pushIterator, turn, exceptionPtr, engineException, proc, sigint,
          msgsLeft, failsLeft, acceptsLeft, sent, attached, acceptedInGame,
          sizeX, sizeY, explosionRadius, bombTimer, initialBlocks, simPc,
          position, blocks, bombs, nextBombID, playerScores,
          playersByPosition, blocksDestroyed, playersDestroyed, simTurn,
          seed, wire, turnLog, blocksBefore, positionBefore, inputsLeft,
          clientState, inServerMessage, outDrawMessage, activeBombs,
          destroyedPlayers, destroyedBlocks, prevDrawMessage, GUIBufferOut,
          playerName,
          guiPc, guiInMessage, outClientMessage, toServer, guiDatagram,
          guiLog, datagramsLeft, codecPc, codecFamily, codecValue,
          codecSuffix, codecBytes, codecDecoded, locksHeld, lockScript,
          variablesMutex, GUIListener, serverListener, clientMain,
          clientExceptionPtr, clientSockets>>

\* Variable groups, for UNCHANGED.
cfgVars == <<playerCount, gameLength, sizeX, sizeY, explosionRadius,
             bombTimer, initialBlocks>>
queueVars == <<queue, qnext, acceptedPlayerMessagesHead,
               currentGameMessagesHead, messageQueueTail>>
connMsgVars == <<inMessage, inMessagePending>>
engineLocals == <<connectionIterator, currentIterator, pushIterator, turn>>
histVars == <<sent, attached, acceptedInGame>>
envVars == <<msgsLeft, failsLeft, acceptsLeft>>
procVars == <<exceptionPtr, engineException, proc, sigint>>
simVars == <<simPc, position, blocks, bombs, nextBombID, playerScores,
             playersByPosition, blocksDestroyed, playersDestroyed, simTurn,
             seed, wire, turnLog, blocksBefore, positionBefore, inputsLeft>>
clientVars == <<clientState, inServerMessage, outDrawMessage, activeBombs,
                destroyedPlayers, destroyedBlocks, prevDrawMessage,
               GUIBufferOut>>
guiVars == <<playerName, guiPc, guiInMessage, outClientMessage, toServer,
             guiDatagram, guiLog, datagramsLeft>>
codecVars == <<codecPc, codecFamily, codecValue, codecSuffix, codecBytes,
               codecDecoded>>
lockVars == <<locksHeld, lockScript>>
clientThreadVars == <<variablesMutex, GUIListener, serverListener, clientMain,
                      clientExceptionPtr, clientSockets>>
threadVars == <<lockVars, clientThreadVars>>
\* The variables of the threads, the queue and the connections.
serverVars == <<state, clients, nextConnectionID, pendingMessages,
                isShutdown, joinedPlayers, queueVars, serverMutex,
                acceptorOpen, pnext, sock, disconnected, joined, connMsgVars,
                head, tail, lpc, epc, gpc, mpc, engineLocals, procVars,
                envVars, histVars>>

\* ------------------------------------------------------------------ queue
\* A faulty successor, for the sensitivity of NoDropNoDup: it steps over a
\* queue node that has a successor of its own.
NextOfSkipping(n) ==
    IF n > 0
    THEN IF qnext[n] > 0 /\ qnext[qnext[n]] # NULL
         THEN qnext[qnext[n]] ELSE qnext[n]
    ELSE IF n \in PrivNodes THEN pnext[n]
    ELSE IF \E c \in Conns : n = E1(c) THEN n - 1
    ELSE NULL

\* node->next
NextOf(n) ==
    IF n > 0 THEN qnext[n]
    ELSE IF n \in PrivNodes THEN pnext[n]
    ELSE IF \E c \in Conns : n = E1(c) THEN n - 1
    ELSE NULL

\* The node a walk "while (tail->next) tail = tail->next" ends on, under the
\* next pointers qn (queue nodes) and pn (private nodes).
RECURSIVE WalkToEnd(_, _, _)
WalkToEnd(n, qn, pn) ==
    LET nx == IF n > 0 THEN qn[n]
              ELSE IF n \in PrivNodes THEN pn[n]
              ELSE IF \E c \in Conns : n = E1(c) THEN n - 1
              ELSE NULL
    IN IF nx = NULL THEN n ELSE WalkToEnd(nx, qn, pn)

\* The emitter of c holds c's forMessagesMutex from the evaluation of the wait
\* predicate until it blocks in wait, or until the end of the loop body (the
\* write included).
EmitterHolds(c) == epc[c] \in {"writing", "prewait"}

\* forMessages.notify_all() of connection c: a waiting emitter wakes.
Notified(e, cs) ==
    [c \in Conns |-> IF c \in cs /\ e[c] = "waiting" THEN "idle" ELSE e[c]]

\* The game of the k-th node of the queue (one more than the games ended in
\* front of it), and the game that the next node will belong to.
GameOf(k) ==
    1 + Cardinality({j \in 1 .. (k - 1) : queue[j].type = "GameEnded"})
CurGame == GameOf(Len(queue) + 1)

\* A DataServerMessage: its type, its playerID or turn number, and the
\* connection of the player it announces.
Msg(t, n, c) == [type |-> t, num |-> n, conn |-> c]

\* ------------------------------------------------------------------ Init
\* The state after Server's constructor and the start of mainThread: the first
\* ClientConnection (ID 0) exists and its listener waits in accept().  In
\* the run conns clients will connect and send msgs messages, and fails of
\* them will fail; --game-length is one of lengths.
Constructed(conns, msgs, fails, lengths) ==
    /\ playerCount \in 1 .. MaxPlayers
    /\ gameLength \in lengths
    /\ state = "Lobby"
    /\ clients = {0}
    /\ nextConnectionID = 1
    /\ pendingMessages = 0
    /\ isShutdown = FALSE
    /\ joinedPlayers = <<>>
    /\ acceptedPlayerMessagesHead = NULL
    /\ currentGameMessagesHead = NULL
    /\ messageQueueTail = NULL
    /\ serverMutex = "free"
    /\ acceptorOpen = TRUE
    /\ queue = <<>>
    /\ qnext = <<>>
    /\ pnext = [n \in PrivNodes |-> NULL]
    /\ sock = [c \in Conns |-> "none"]
    /\ disconnected = [c \in Conns |-> FALSE]
    /\ joined = [c \in Conns |-> FALSE]
    /\ inMessage = [c \in Conns |-> "Join"]
    /\ inMessagePending = [c \in Conns |-> FALSE]
    /\ head = [c \in Conns |-> D0(c)]
    /\ tail = [c \in Conns |-> D0(c)]
    /\ lpc = [c \in Conns |-> IF c = 0 THEN "accept" ELSE "none"]
    /\ epc = [c \in Conns |-> "none"]
    /\ gpc = "cpWait"
    /\ mpc = "wait"
    /\ connectionIterator = 0
    /\ currentIterator = MaxConn
    /\ pushIterator = MaxConn
    /\ turn = 0
    /\ exceptionPtr = "null"
    /\ engineException = "none"
    /\ proc = "running"
    /\ sigint = FALSE
    /\ msgsLeft = msgs
    /\ failsLeft = fails
    /\ acceptsLeft = conns
    /\ sent = [c \in Conns |-> <<>>]
    /\ attached = [c \in Conns |-> NULL]
    /\ acceptedInGame = [c \in Conns |-> FALSE]

\* ------------------------------------------------------------ pushMessage
\* ClientConnection::pushMessage(message), lines 81-95, under the connection's
\* forMessagesMutex: walk the tail t to the end, link the message there unless
\* the end already is the message, walk to the end again.  The results are
\* the new next pointers (of the queue nodes, of the private nodes) and the
\* new tail.
PushQNext(t, m, qn, pn) ==
    LET e == WalkToEnd(t, qn, pn)
    IN IF e > 0 /\ e # m THEN [qn EXCEPT ![e] = m] ELSE qn

PushPNext(t, m, qn, pn) ==
    LET e == WalkToEnd(t, qn, pn)
    IN IF e \in PrivNodes /\ e # m THEN [pn EXCEPT ![e] = m] ELSE pn

PushTail(t, m, qn, pn) ==
    WalkToEnd(t, PushQNext(t, m, qn, pn), PushPNext(t, m, qn, pn))

\* --------------------------------------------------------------- listener
Running == proc = "running"

\* listenToClient, lines 648-659: accept() returns a socket; the buffers are
\* made and the emitter thread is started.
Accept(c) ==
    /\ Running
    /\ lpc[c] = "accept"
    /\ acceptorOpen
    /\ acceptsLeft > 0
    /\ acceptsLeft' = acceptsLeft - 1
    /\ acceptedInGame' = [acceptedInGame EXCEPT ![c] = state = "Game"]
    /\ sock' = [sock EXCEPT ![c] = "open"]
    /\ epc' = [epc EXCEPT ![c] = "idle"]
    /\ lpc' = [lpc EXCEPT ![c] = "init1"]
    /\ UNCHANGED <<cfgVars, threadVars, simVars, clientVars, guiVars, codecVars, state, clients, nextConnectionID, pendingMessages,
                   isShutdown, joinedPlayers, queueVars, serverMutex,
                   acceptorOpen, pnext, disconnected, joined, connMsgVars,
                   head, tail, gpc, mpc, engineLocals, procVars, msgsLeft,
                   failsLeft, sent, attached>>

\* listenToClient, lines 662-672: take serverMutex, emplace the next
\* ClientConnection (its listener starts and waits in accept), and assign
\* messageQueueHead = messageQueueTail = a new dummy.  The assignment is made
\* without the connection's forMessagesMutex, so it races with an emitter
\* that is inside its loop body (lines 744-745).  The head after the race is
\* the new dummy (the emitter then writes the dummy's message, unless its
\* write had already begun), or the node the emitter stored (its store came
\* last, the head stays on the old chain), or null (the emitter had evaluated
\* the predicate and loads the new dummy's successor).
HeadAfterReset(c) ==
    IF epc[c] = "writing" THEN {D1(c), head[c], NULL} ELSE {D1(c)}

ListenerInit1(c) ==
    /\ Running
    /\ lpc[c] = "init1"
    /\ serverMutex = "free"
    /\ serverMutex' = "listener"
    /\ clients' = clients \cup {nextConnectionID}
    /\ nextConnectionID' = nextConnectionID + 1
    /\ \E h \in HeadAfterReset(c) : head' = [head EXCEPT ![c] = h]
    /\ tail' = [tail EXCEPT ![c] = D1(c)]
    /\ lpc' = [lpc EXCEPT ![c] = "init2", ![nextConnectionID] = "accept"]
    /\ UNCHANGED <<cfgVars, threadVars, simVars, clientVars, guiVars, codecVars, state, pendingMessages, isShutdown, joinedPlayers,
                   queueVars, acceptorOpen, pnext, sock, disconnected, joined,
                   connMsgVars, epc, gpc, mpc, engineLocals, procVars,
                   envVars, histVars>>

\* The queue the listener attaches a new connection to (lines 675-679).
AttachNode ==
    IF state = "Game" THEN currentGameMessagesHead
    ELSE acceptedPlayerMessagesHead

\* listenToClient, lines 673-680: pushMessage(copy of helloMessage), then
\* pushMessage(the head of the current game's or lobby's messages); each
\* locks the connection's forMessagesMutex and notifies the emitter.  Then
\* serverMutex is released and the listening loop starts.
ListenerInit2(c) ==
    /\ Running
    /\ lpc[c] = "init2"
    /\ ~EmitterHolds(c)
    /\ LET qn1 == PushQNext(tail[c], H(c), qnext, pnext)
           pn1 == PushPNext(tail[c], H(c), qnext, pnext)
           t1 == PushTail(tail[c], H(c), qnext, pnext)
       IN /\ pnext' = PushPNext(t1, AttachNode, qn1, pn1)
          /\ qnext' = PushQNext(t1, AttachNode, qn1, pn1)
          /\ tail' = [tail EXCEPT ![c] = PushTail(t1, AttachNode, qn1, pn1)]
    /\ epc' = Notified(epc, {c})
    /\ attached' = [attached EXCEPT ![c] =
                        IF AttachNode # NULL THEN AttachNode
                        ELSE Len(queue) + 1]
    /\ acceptedInGame' = [acceptedInGame EXCEPT ![c] = FALSE]
    /\ serverMutex' = "free"
    /\ lpc' = [lpc EXCEPT ![c] = "listen"]
    /\ UNCHANGED <<cfgVars, threadVars, simVars, clientVars, guiVars, codecVars, state, clients, nextConnectionID, pendingMessages,
                   isShutdown, joinedPlayers, queue,
                   acceptedPlayerMessagesHead, currentGameMessagesHead,
                   messageQueueTail, acceptorOpen, sock, disconnected, joined,
                   connMsgVars, head, gpc, mpc, engineLocals, procVars,
                   envVars, sent>>

\* The ClientMessages a client may send, by what the server does with them.
ClientMessages == {"Join", "PlaceBomb"}

\* A listener that keeps the message it holds while that message is pending.
ReceiveKeepingFirst(c, m) ==
    /\ Running
    /\ lpc[c] = "listen"
    /\ sock[c] = "open"
    /\ msgsLeft > 0
    /\ msgsLeft' = msgsLeft - 1
    /\ UNCHANGED <<failsLeft, acceptsLeft>>
    /\ inMessage' = IF inMessagePending[c] THEN inMessage
                                           ELSE [inMessage EXCEPT ![c] = m]
    /\ inMessagePending' = [inMessagePending EXCEPT ![c] = TRUE]
    /\ pendingMessages' =
           IF inMessagePending[c] THEN pendingMessages ELSE pendingMessages + 1
    /\ UNCHANGED <<cfgVars, threadVars, simVars, clientVars, guiVars, codecVars, state, clients, nextConnectionID, isShutdown,
                   joinedPlayers, queueVars, serverMutex, acceptorOpen, pnext,
                   sock, disconnected, joined, head, tail, lpc, epc, gpc, mpc,
                   engineLocals, procVars, histVars>>

\* listenToClient, lines 683-699: one ClientMessage is read and stored as the
\* connection's inMessage under inMessageMutex; if none was pending the flag
\* is set, pendingMessages is incremented under the server's forMessagesMutex
\* and the engine is notified.
Receive(c, m) ==
    /\ Running
    /\ lpc[c] = "listen"
    /\ sock[c] = "open"
    /\ msgsLeft > 0
    /\ msgsLeft' = msgsLeft - 1
    /\ UNCHANGED <<failsLeft, acceptsLeft>>
    /\ inMessage' = [inMessage EXCEPT ![c] = m]
    /\ inMessagePending' = [inMessagePending EXCEPT ![c] = TRUE]
    /\ pendingMessages' =
           IF inMessagePending[c] THEN pendingMessages ELSE pendingMessages + 1
    /\ UNCHANGED <<cfgVars, threadVars, simVars, clientVars, guiVars, codecVars, state, clients, nextConnectionID, isShutdown,
                   joinedPlayers, queueVars, serverMutex, acceptorOpen, pnext,
                   sock, disconnected, joined, head, tail, lpc, epc, gpc, mpc,
                   engineLocals, procVars, histVars>>

\* listenToClient, lines 700-710: accept() or a read failed: the client went
\* away or sent a bad tag, or the server shut the socket or the acceptor down.
\* The catch block sets disconnected and closes the socket if there is one.
ListenerFail(c) ==
    /\ Running
    /\ \/ lpc[c] = "listen" /\ sock[c] = "closed" /\ failsLeft' = failsLeft
       \/ lpc[c] = "listen" /\ sock[c] = "open" /\ failsLeft > 0
          /\ failsLeft' = failsLeft - 1
       \/ lpc[c] = "accept" /\ ~acceptorOpen /\ failsLeft' = failsLeft
    /\ disconnected' = [disconnected EXCEPT ![c] = TRUE]
    /\ sock' = [sock EXCEPT ![c] = IF sock[c] = "none" THEN "none" ELSE "closed"]
    /\ lpc' = [lpc EXCEPT ![c] = "catch"]
    /\ UNCHANGED <<msgsLeft, acceptsLeft>>
    /\ UNCHANGED <<cfgVars, threadVars, simVars, clientVars, guiVars, codecVars, state, clients, nextConnectionID, pendingMessages,
                   isShutdown, joinedPlayers, queueVars, serverMutex,
                   acceptorOpen, pnext, joined, connMsgVars, head, tail, epc,
                   gpc, mpc, engineLocals, procVars, histVars>>

\* listenToClient, lines 714-730: under the connection's forMessagesMutex the
\* head becomes a dummy that points to another dummy, and the emitter is
\* notified; then, under inMessageMutex, a pending message is withdrawn and
\* pendingMessages decremented.  The listener thread ends.
ListenerCatch(c) ==
    /\ Running
    /\ lpc[c] = "catch"
    /\ ~EmitterHolds(c)
    /\ head' = [head EXCEPT ![c] = E1(c)]
    /\ epc' = Notified(epc, {c})
    /\ inMessagePending' = [inMessagePending EXCEPT ![c] = FALSE]
    /\ pendingMessages' =
           IF inMessagePending[c] THEN pendingMessages - 1 ELSE pendingMessages
    /\ lpc' = [lpc EXCEPT ![c] = "done"]
    /\ UNCHANGED <<cfgVars, threadVars, simVars, clientVars, guiVars, codecVars, state, clients, nextConnectionID, isShutdown,
                   joinedPlayers, queueVars, serverMutex, acceptorOpen, pnext,
                   sock, disconnected, joined, inMessage, tail, gpc, mpc,
                   engineLocals, procVars, envVars, histVars>>

\* ---------------------------------------------------------------- emitter
\* emitToClient, lines 738-744: lock the connection's forMessagesMutex and
\* evaluate the wait predicate head->next.  If it is null the thread is about
\* to block (it still holds the mutex); else the head advances to its
\* successor, whose message is about to be written.
EmitTake(c) ==
    /\ Running
    /\ epc[c] = "idle"
    /\ IF NextOf(head[c]) # NULL
       THEN /\ head' = [head EXCEPT ![c] = NextOf(head[c])]
            /\ epc' = [epc EXCEPT ![c] = "writing"]
       ELSE /\ head' = head
            /\ epc' = [epc EXCEPT ![c] = "prewait"]
    /\ UNCHANGED <<cfgVars, threadVars, simVars, clientVars, guiVars, codecVars, state, clients, nextConnectionID, pendingMessages,
                   isShutdown, joinedPlayers, queueVars, serverMutex,
                   acceptorOpen, pnext, sock, disconnected, joined,
                   connMsgVars, tail, lpc, gpc, mpc, engineLocals,
                   procVars, envVars, histVars>>

\* condition_variable::wait: release the mutex and block until notified.
EmitBlock(c) ==
    /\ Running
    /\ epc[c] = "prewait"
    /\ epc' = [epc EXCEPT ![c] = "waiting"]
    /\ UNCHANGED <<cfgVars, threadVars, simVars, clientVars, guiVars, codecVars, state, clients, nextConnectionID, pendingMessages,
                   isShutdown, joinedPlayers, queueVars, serverMutex,
                   acceptorOpen, pnext, sock, disconnected, joined,
                   connMsgVars, head, tail, lpc, gpc, mpc, engineLocals,
                   procVars, envVars, histVars>>

\* emitToClient, line 745: the head's message is written to the socket and
\* the loop body ends (the mutex is released).  The head is read again here:
\* if the listener replaced it by a dummy with no successor before line 744,
\* the head is null and the read is a null dereference, which ends the process.
EmitWrite(c) ==
    /\ Running
    /\ epc[c] = "writing"
    /\ (head[c] = NULL \/ sock[c] = "open")
    /\ IF head[c] = NULL
       THEN /\ proc' = "aborted"
            /\ UNCHANGED <<sent, epc>>
       ELSE /\ sent' = [sent EXCEPT ![c] = Append(@, head[c])]
            /\ epc' = [epc EXCEPT ![c] = "idle"]
            /\ proc' = proc
    /\ UNCHANGED <<cfgVars, threadVars, simVars, clientVars, guiVars, codecVars, state, clients, nextConnectionID, pendingMessages,
                   isShutdown, joinedPlayers, queueVars, serverMutex,
                   acceptorOpen, pnext, sock, disconnected, joined,
                   connMsgVars, head, tail, lpc, gpc, mpc, engineLocals,
                   exceptionPtr, engineException, sigint, envVars, attached,
                   acceptedInGame>>

\* emitToClient, lines 747-756: the write fails on a closed socket; the catch
\* block sets disconnected, closes the socket, and the emitter thread ends.
EmitFail(c) ==
    /\ Running
    /\ epc[c] = "writing"
    /\ head[c] # NULL
    /\ sock[c] = "closed"
    /\ disconnected' = [disconnected EXCEPT ![c] = TRUE]
    /\ epc' = [epc EXCEPT ![c] = "done"]
    /\ UNCHANGED <<cfgVars, threadVars, simVars, clientVars, guiVars, codecVars, state, clients, nextConnectionID, pendingMessages,
                   isShutdown, joinedPlayers, queueVars, serverMutex,
                   acceptorOpen, pnext, sock, joined, connMsgVars, head, tail,
                   lpc, gpc, mpc, engineLocals, procVars, envVars, histVars>>

\* ----------------------------------------------------------------- engine
\* std::map<size_t, ClientConnection> iteration: clients.end() is END,
\* clients.begin() the smallest key, ++ the next larger key.
END == MaxConn
MinOf(S) == CHOOSE x \in S : \A y \in S : x <= y
Begin == IF clients = {} THEN END ELSE MinOf(clients)
NextKey(k) ==
    IF {x \in clients : x > k} = {} THEN END ELSE MinOf({x \in clients : x > k})

\* Where collectPlayers' while loop goes with j players joined: another round,
\* or out of the loop and into startGame (mainLoop, lines 762-763).
LoopPc(j) == IF Len(j) < playerCount THEN "cpWait" ELSE "startGame"

\* An exception leaves the engine's functions: mainLoop's catch stores it in
\* exceptionPtr and notifies main (lines 767-773); the engine thread ends.
EngineThrows(kind) ==
    /\ gpc' = "done"
    /\ engineException' = kind
    /\ exceptionPtr' = kind

\* collectPlayers, lines 279-289: wait until pendingMessages > 0, then throw
\* InterruptedException if isShutdown is set.
CollectWait ==
    /\ Running
    /\ gpc = "cpWait"
    /\ pendingMessages > 0
    /\ IF isShutdown
       THEN EngineThrows("Interrupted")
       ELSE gpc' = "cpPick" /\ UNCHANGED <<engineException, exceptionPtr>>
    /\ UNCHANGED <<cfgVars, threadVars, simVars, clientVars, guiVars, codecVars, state, clients, nextConnectionID, pendingMessages,
                   isShutdown, joinedPlayers, queueVars, serverMutex,
                   acceptorOpen, pnext, sock, disconnected, joined,
                   connMsgVars, head, tail, lpc, epc, mpc, engineLocals, proc,
                   sigint, envVars, histVars>>

\* collectPlayers, lines 291-302: wrap the iterator, step it, and read the
\* connection's disconnected flag (no lock is held).  After shutdown() has
\* cleared the map the iterator dangles: the access is undefined, and either
\* ends the process or reads a connection that is neither disconnected nor
\* has a message.
CollectPick ==
    /\ Running
    /\ gpc = "cpPick"
    /\ LET it == IF connectionIterator = END THEN Begin ELSE connectionIterator
       IN IF it \notin clients
          THEN /\ \/ proc' = "aborted" /\ gpc' = gpc
                  \/ proc' = proc /\ gpc' = LoopPc(joinedPlayers)
               /\ UNCHANGED <<connectionIterator, currentIterator>>
          ELSE /\ currentIterator' = it
               /\ connectionIterator' = NextKey(it)
               /\ gpc' = IF disconnected[it] THEN "cpErase" ELSE "cpPend"
               /\ proc' = proc
    /\ UNCHANGED <<cfgVars, threadVars, simVars, clientVars, guiVars, codecVars, state, clients, nextConnectionID, pendingMessages,
                   isShutdown, joinedPlayers, queueVars, serverMutex,
                   acceptorOpen, pnext, sock, disconnected, joined,
                   connMsgVars, head, tail, lpc, epc, mpc, pushIterator, turn,
                   exceptionPtr, engineException, sigint, envVars, histVars>>

\* collectPlayers, line 302: clients.erase(currentIterator).  The destructor
\* of ClientConnection joins the listener and the emitter thread.  If
\* shutdown() has cleared the map meanwhile, the connection is destroyed
\* already and the loop goes on (or the process ends: UseAfterClear).
CollectErase ==
    /\ Running
    /\ gpc = "cpErase"
    /\ currentIterator \in clients =>
           /\ lpc[currentIterator] = "done"
           /\ epc[currentIterator] \in {"none", "done"}
    /\ clients' = clients \ {currentIterator}
    /\ gpc' = LoopPc(joinedPlayers)
    /\ UNCHANGED <<cfgVars, threadVars, simVars, clientVars, guiVars, codecVars, state, nextConnectionID, pendingMessages,
                   isShutdown, joinedPlayers, queueVars, serverMutex,
                   acceptorOpen, pnext, sock, disconnected, joined,
                   connMsgVars, head, tail, lpc, epc, mpc, engineLocals,
                   procVars, envVars, histVars>>

\* collectPlayers, lines 300-319, after shutdown() has cleared the map: the
\* reference "connection" dangles, and using it is undefined: the process may
\* end there (or go on as if the connection were alive: CollectErase,
\* CollectPend, CollectExtract).
UseAfterClear ==
    /\ Running
    /\ gpc \in {"cpErase", "cpPend", "cpExtract"}
    /\ currentIterator \notin clients
    /\ proc' = "aborted"
    /\ UNCHANGED <<cfgVars, threadVars, simVars, clientVars, guiVars, codecVars, state, clients, nextConnectionID, pendingMessages,
                   isShutdown, joinedPlayers, queueVars, serverMutex,
                   acceptorOpen, pnext, sock, disconnected, joined,
                   connMsgVars, head, tail, lpc, epc, gpc, mpc, engineLocals,
                   exceptionPtr, engineException, sigint, envVars, histVars>>

\* collectPlayers, line 303: read inMessagePending (no lock is held).
CollectPend ==
    /\ Running
    /\ gpc = "cpPend"
    /\ gpc' = IF inMessagePending[currentIterator]
              THEN "cpExtract" ELSE LoopPc(joinedPlayers)
    /\ UNCHANGED <<cfgVars, threadVars, simVars, clientVars, guiVars, codecVars, state, clients, nextConnectionID, pendingMessages,
                   isShutdown, joinedPlayers, queueVars, serverMutex,
                   acceptorOpen, pnext, sock, disconnected, joined,
                   connMsgVars, head, tail, lpc, epc, mpc, engineLocals,
                   procVars, envVars, histVars>>

\* A faulty admission test, for the sensitivity of JoinAdmission: every Join
\* is admitted.
AdmitsEveryJoin(c, m) == m = "Join"

\* collectPlayers, line 315: a message makes its connection a player iff it
\* is a Join and the connection has not joined in this lobby.
AdmitsJoin(c, m) == m = "Join" /\ ~joined[c]

\* joinPlayer, line 243: the new player's ID.
NewPlayerID(j) == Len(j) % 256

\* collectPlayers, lines 305-319, and joinPlayer, lines 243-260: under
\* inMessageMutex and forMessagesMutex take the message, clear the flag and
\* decrement pendingMessages (whatever the flag is by now).  An admitted Join
\* sets joined, asks the socket for its remote endpoint (which throws on a
\* closed socket) and appends the player to joinedPlayers.
CollectExtract ==
    /\ Running
    /\ gpc = "cpExtract"
    /\ LET c == currentIterator
       IN /\ inMessagePending' = [inMessagePending EXCEPT ![c] = FALSE]
          /\ pendingMessages' = pendingMessages - 1
          /\ IF AdmitsJoin(c, inMessage[c])
             THEN /\ joined' = [joined EXCEPT ![c] = TRUE]
                  /\ IF sock[c] = "closed"
                     THEN /\ EngineThrows("system_error")
                          /\ UNCHANGED joinedPlayers
                     ELSE /\ joinedPlayers' = Append(joinedPlayers, c)
                          /\ gpc' = "jpLock"
                          /\ UNCHANGED <<engineException, exceptionPtr>>
             ELSE /\ gpc' = LoopPc(joinedPlayers)
                  /\ UNCHANGED <<joined, joinedPlayers, engineException,
                                 exceptionPtr>>
    /\ UNCHANGED <<cfgVars, threadVars, simVars, clientVars, guiVars, codecVars, state, clients, nextConnectionID, isShutdown,
                   queueVars, serverMutex, acceptorOpen, pnext, sock,
                   disconnected, inMessage, head, tail, lpc, epc, mpc,
                   engineLocals, proc, sigint, envVars, histVars>>

\* "messageQueueTail->next = node; messageQueueTail = messageQueueTail->next":
\* the queue's next pointers once a node is appended after the server's tail.
LinkedAfterTail(qn, k) ==
    IF messageQueueTail = NULL THEN Append(qn, NULL)
    ELSE Append([qn EXCEPT ![messageQueueTail] = k], NULL)

\* joinPlayer, lines 251-273: make the AcceptedPlayer node and lock
\* serverMutex.  If a player was already accepted the node is appended after
\* the tail and every connection notified; else the node starts the queue and
\* is pushed to every connection (JoinPush), still under serverMutex.
JoinLock ==
    /\ Running
    /\ gpc = "jpLock"
    /\ serverMutex = "free"
    /\ LET k == Len(queue) + 1
           c == joinedPlayers[Len(joinedPlayers)]
           id == NewPlayerID(SubSeq(joinedPlayers, 1, Len(joinedPlayers) - 1))
       IN /\ queue' = Append(queue, Msg("AcceptedPlayer", id, c))
          /\ messageQueueTail' = k
          /\ IF acceptedPlayerMessagesHead # NULL
             THEN /\ qnext' = LinkedAfterTail(qnext, k)
                  /\ epc' = Notified(epc, clients)
                  /\ gpc' = LoopPc(joinedPlayers)
                  /\ UNCHANGED <<acceptedPlayerMessagesHead, serverMutex,
                                 pushIterator>>
             ELSE /\ qnext' = Append(qnext, NULL)
                  /\ acceptedPlayerMessagesHead' = k
                  /\ serverMutex' = "engine"
                  /\ pushIterator' = Begin
                  /\ gpc' = "jpPush"
                  /\ epc' = epc
    /\ UNCHANGED <<cfgVars, threadVars, simVars, clientVars, guiVars, codecVars, state, clients, nextConnectionID, pendingMessages,
                   isShutdown, joinedPlayers, currentGameMessagesHead,
                   acceptorOpen, pnext, sock, disconnected, joined,
                   connMsgVars, head, tail, lpc, mpc, connectionIterator,
                   currentIterator, turn, procVars, envVars, histVars>>

\* pushToAllConnections, lines 233-235, one connection at a time: pushMessage
\* locks that connection's forMessagesMutex.  After the last connection
\* joinPlayer returns and serverMutex is released.  After shutdown() has
\* cleared the map the loop's iterator dangles: the access is undefined, and
\* either ends the process or ends the loop.
JoinPush ==
    /\ Running
    /\ gpc = "jpPush"
    /\ pushIterator \in clients => ~EmitterHolds(pushIterator)
    /\ LET c == pushIterator
           m == acceptedPlayerMessagesHead
       IN IF c \in clients
          THEN /\ pnext' = PushPNext(tail[c], m, qnext, pnext)
               /\ qnext' = PushQNext(tail[c], m, qnext, pnext)
               /\ tail' = [tail EXCEPT ![c] = PushTail(tail[c], m, qnext, pnext)]
               /\ epc' = Notified(epc, {c})
               /\ pushIterator' = NextKey(c)
               /\ IF NextKey(c) = END
                  THEN serverMutex' = "free" /\ gpc' = LoopPc(joinedPlayers)
                  ELSE UNCHANGED <<serverMutex, gpc>>
               /\ proc' = proc
          ELSE /\ \/ /\ c # END
                     /\ proc' = "aborted"
                     /\ UNCHANGED <<serverMutex, gpc>>
                  \/ /\ proc' = proc
                     /\ serverMutex' = "free"
                     /\ gpc' = LoopPc(joinedPlayers)
               /\ UNCHANGED <<pnext, qnext, tail, epc, pushIterator>>
    /\ UNCHANGED <<cfgVars, threadVars, simVars, clientVars, guiVars, codecVars, state, clients, nextConnectionID, pendingMessages,
                   isShutdown, joinedPlayers, queue,
                   acceptedPlayerMessagesHead, currentGameMessagesHead,
                   messageQueueTail, acceptorOpen, sock, disconnected, joined,
                   connMsgVars, head, lpc, mpc, connectionIterator,
                   currentIterator, turn, exceptionPtr, engineException,
                   sigint, envVars, histVars>>

\* runGame's loop counter after "turn++" (uint16_t).
NextTurn(t) == (t + 1) % TurnModulus

\* runGame's loop condition "turn <= gameLength" (line 545): another turn, or
\* out of the loop to the GameEnded message.
TurnPc(t) == IF t <= gameLength THEN "runTurn" ELSE "endGame"

\* startGame, lines 325-384, under serverMutex: state becomes Game, the
\* GameStarted node (currentGameMessagesHead) and the Turn 0 node are appended
\* after the tail and every connection is notified.  mainLoop then enters
\* runGame, whose loop starts at turn 1 (line 545).  collectPlayers has
\* returned: its iterators are out of scope (END).
StartGame ==
    /\ Running
    /\ gpc = "startGame"
    /\ serverMutex = "free"
    /\ LET k == Len(queue) + 1
       IN /\ state' = "Game"
          /\ currentGameMessagesHead' = k
          /\ queue' = queue \o <<Msg("GameStarted", 0, 0 - 1),
                                 Msg("Turn", 0, 0 - 1)>>
          /\ qnext' = Append([LinkedAfterTail(qnext, k) EXCEPT ![k] = k + 1],
                              NULL)
          /\ messageQueueTail' = k + 1
    /\ epc' = Notified(epc, clients)
    /\ connectionIterator' = END
    /\ currentIterator' = END
    /\ turn' = 1
    /\ gpc' = TurnPc(1)
    /\ UNCHANGED <<cfgVars, threadVars, simVars, clientVars, guiVars, codecVars, clients, nextConnectionID, pendingMessages,
                   isShutdown, joinedPlayers, acceptedPlayerMessagesHead,
                   serverMutex, acceptorOpen, pnext, sock, disconnected,
                   joined, connMsgVars, head, tail, lpc, mpc, pushIterator,
                   procVars, envVars, histVars>>

\* processPlayerMove, lines 450-453: clients.at(connectionID) throws
\* std::out_of_range for a player whose connection was erased.  The players in
\* front of the first such player are processed.
Processed ==
    LET missing == {i \in 1 .. Len(joinedPlayers) : joinedPlayers[i] \notin clients}
        upto == IF missing = {} THEN Len(joinedPlayers) ELSE MinOf(missing) - 1
    IN {joinedPlayers[i] : i \in 1 .. upto}

\* runGame, lines 545-572, one turn: sleep, throw InterruptedException if
\* isShutdown is set, process every player's pending message (lines 531-536:
\* the flag is cleared and pendingMessages decremented), append the Turn node
\* after the tail and notify every connection.
RunTurn ==
    /\ Running
    /\ gpc = "runTurn"
    /\ IF isShutdown
       THEN /\ EngineThrows("Interrupted")
            /\ UNCHANGED <<queueVars, connMsgVars, pendingMessages, epc, turn>>
       ELSE /\ inMessagePending' =
                   [c \in Conns |-> inMessagePending[c] /\ c \notin Processed]
            /\ pendingMessages' = pendingMessages
                   - Cardinality({c \in Processed : inMessagePending[c]})
            /\ inMessage' = inMessage
            /\ IF Processed # {joinedPlayers[i] : i \in 1 .. Len(joinedPlayers)}
               THEN /\ EngineThrows("out_of_range")
                    /\ UNCHANGED <<queueVars, epc, turn>>
               ELSE /\ queue' = Append(queue, Msg("Turn", turn, 0 - 1))
                    /\ qnext' = LinkedAfterTail(qnext, Len(queue) + 1)
                    /\ messageQueueTail' = Len(queue) + 1
                    /\ epc' = Notified(epc, clients)
                    /\ turn' = NextTurn(turn)
                    /\ gpc' = TurnPc(NextTurn(turn))
                    /\ UNCHANGED <<acceptedPlayerMessagesHead,
                                   currentGameMessagesHead, engineException,
                                   exceptionPtr>>
    /\ UNCHANGED <<cfgVars, threadVars, simVars, clientVars, guiVars, codecVars, state, clients, nextConnectionID, isShutdown,
                   joinedPlayers, serverMutex, acceptorOpen, pnext, sock,
                   disconnected, joined, head, tail, lpc, mpc,
                   connectionIterator, currentIterator, pushIterator, proc,
                   sigint, envVars, histVars>>

\* runGame, lines 545-572, one turn of a game whose Turn messages are not
\* kept: the sleep, the isShutdown test and the loop's increment and
\* condition, as in RunTurn, without the Turn node (no client sends a move
\* and no connection is erased in the runs this action is part of).
TurnLoop ==
    /\ Running
    /\ gpc = "runTurn"
    /\ IF isShutdown
       THEN /\ EngineThrows("Interrupted")
            /\ UNCHANGED turn
       ELSE /\ turn' = NextTurn(turn)
            /\ gpc' = TurnPc(NextTurn(turn))
            /\ UNCHANGED <<engineException, exceptionPtr>>
    /\ UNCHANGED <<cfgVars, threadVars, simVars, clientVars, guiVars, codecVars, state, clients, nextConnectionID, pendingMessages,
                   isShutdown, joinedPlayers, queueVars, serverMutex,
                   acceptorOpen, pnext, sock, disconnected, joined,
                   connMsgVars, head, tail, lpc, epc, mpc,
                   connectionIterator, currentIterator, pushIterator, proc,
                   sigint, envVars, histVars>>

\* runGame, lines 574-584, under serverMutex: state becomes Lobby, the
\* GameEnded node is appended and every connection notified.  The loop's
\* turn is out of scope (0).
EndGame ==
    /\ Running
    /\ gpc = "endGame"
    /\ serverMutex = "free"
    /\ state' = "Lobby"
    /\ queue' = Append(queue, Msg("GameEnded", 0, 0 - 1))
    /\ qnext' = LinkedAfterTail(qnext, Len(queue) + 1)
    /\ messageQueueTail' = Len(queue) + 1
    /\ epc' = Notified(epc, clients)
    /\ turn' = 0
    /\ gpc' = "clearGame"
    /\ UNCHANGED <<cfgVars, threadVars, simVars, clientVars, guiVars, codecVars, clients, nextConnectionID, pendingMessages,
                   isShutdown, joinedPlayers, acceptedPlayerMessagesHead,
                   currentGameMessagesHead, serverMutex, acceptorOpen, pnext,
                   sock, disconnected, joined, connMsgVars, head, tail, lpc,
                   mpc, connectionIterator, currentIterator, pushIterator,
                   procVars, envVars, histVars>>

\* clearGame, lines 587-611, under serverMutex: the players and the three
\* queue pointers are reset; every connection in the map loses its joined
\* flag and its pending message.  mainLoop then calls collectPlayers, which
\* starts its iterator at clients.begin() (line 277).
ClearGame ==
    /\ Running
    /\ gpc = "clearGame"
    /\ serverMutex = "free"
    /\ joinedPlayers' = <<>>
    /\ acceptedPlayerMessagesHead' = NULL
    /\ currentGameMessagesHead' = NULL
    /\ messageQueueTail' = NULL
    /\ joined' = [c \in Conns |-> joined[c] /\ c \notin clients]
    /\ inMessagePending' =
           [c \in Conns |-> inMessagePending[c] /\ c \notin clients]
    /\ pendingMessages' = pendingMessages
           - Cardinality({c \in clients : inMessagePending[c]})
    /\ connectionIterator' = Begin
    /\ gpc' = LoopPc(<<>>)
    /\ UNCHANGED <<cfgVars, threadVars, simVars, clientVars, guiVars, codecVars, state, clients, nextConnectionID, isShutdown,
                   queue, qnext, serverMutex, acceptorOpen, pnext, sock,
                   disconnected, inMessage, head, tail, lpc, epc, mpc,
                   currentIterator, pushIterator, turn, procVars, envVars,
                   histVars>>

\* ------------------------------------------------------------------- main
\* handleInterrupt, lines 27-37: SIGINT stores an InterruptedException in
\* exceptionPtr and notifies main.
Sigint ==
    /\ Running
    /\ ~sigint
    /\ sigint' = TRUE
    /\ exceptionPtr' = "Interrupted"
    /\ UNCHANGED <<cfgVars, threadVars, simVars, clientVars, guiVars, codecVars, state, clients, nextConnectionID, pendingMessages,
                   isShutdown, joinedPlayers, queueVars, serverMutex,
                   acceptorOpen, pnext, sock, disconnected, joined,
                   connMsgVars, head, tail, lpc, epc, gpc, mpc, engineLocals,
                   engineException, proc, envVars, histVars>>

\* The exceptions that main's "catch (RobotsException &)" handles.
IsRobotsException(e) == e = "Interrupted"

\* main, lines 801-812: wait for exceptionPtr and rethrow it.  A
\* RobotsException leads to shutdown(); anything else leaves main uncaught
\* and the process is terminated.
MainWake ==
    /\ Running
    /\ mpc = "wait"
    /\ exceptionPtr # "null"
    /\ IF IsRobotsException(exceptionPtr)
       THEN mpc' = "shutdown" /\ proc' = proc
       ELSE mpc' = mpc /\ proc' = "aborted"
    /\ UNCHANGED <<cfgVars, threadVars, simVars, clientVars, guiVars, codecVars, state, clients, nextConnectionID, pendingMessages,
                   isShutdown, joinedPlayers, queueVars, serverMutex,
                   acceptorOpen, pnext, sock, disconnected, joined,
                   connMsgVars, head, tail, lpc, epc, gpc, engineLocals,
                   exceptionPtr, engineException, sigint, envVars, histVars>>

\* shutdown, lines 616-628: the acceptor is shut down and the socket of every
\* connection that has one is shut down and closed.
ShutdownSockets ==
    /\ Running
    /\ mpc = "shutdown"
    /\ acceptorOpen' = FALSE
    /\ sock' = [c \in Conns |->
                  IF c \in clients /\ sock[c] # "none" THEN "closed" ELSE sock[c]]
    /\ mpc' = "flag"
    /\ UNCHANGED <<cfgVars, threadVars, simVars, clientVars, guiVars, codecVars, state, clients, nextConnectionID, pendingMessages,
                   isShutdown, joinedPlayers, queueVars, serverMutex, pnext,
                   disconnected, joined, connMsgVars, head, tail, lpc, epc,
                   gpc, engineLocals, procVars, envVars, histVars>>

\* shutdown, lines 633-638: isShutdown is set, pendingMessages incremented
\* and the engine notified.
ShutdownFlag ==
    /\ Running
    /\ mpc = "flag"
    /\ isShutdown' = TRUE
    /\ pendingMessages' = pendingMessages + 1
    /\ mpc' = "clear"
    /\ UNCHANGED <<cfgVars, threadVars, simVars, clientVars, guiVars, codecVars, state, clients, nextConnectionID, joinedPlayers,
                   queueVars, serverMutex, acceptorOpen, pnext, sock,
                   disconnected, joined, connMsgVars, head, tail, lpc, epc,
                   gpc, engineLocals, procVars, envVars, histVars>>

\* shutdown, line 641: clients.clear() destroys every ClientConnection, which
\* joins its listener and its emitter thread.
ShutdownClear ==
    /\ Running
    /\ mpc = "clear"
    /\ \A c \in clients : lpc[c] = "done" /\ epc[c] \in {"none", "done"}
    /\ clients' = {}
    /\ mpc' = "join"
    /\ UNCHANGED <<cfgVars, threadVars, simVars, clientVars, guiVars, codecVars, state, nextConnectionID, pendingMessages,
                   isShutdown, joinedPlayers, queueVars, serverMutex,
                   acceptorOpen, pnext, sock, disconnected, joined,
                   connMsgVars, head, tail, lpc, epc, gpc, engineLocals,
                   procVars, envVars, histVars>>

\* main, line 811: mainThread.join(); main returns and the process exits.
MainJoin ==
    /\ Running
    /\ mpc = "join"
    /\ gpc = "done"
    /\ mpc' = "exit"
    /\ proc' = "exited"
    /\ UNCHANGED <<cfgVars, threadVars, simVars, clientVars, guiVars, codecVars, state, clients, nextConnectionID, pendingMessages,
                   isShutdown, joinedPlayers, queueVars, serverMutex,
                   acceptorOpen, pnext, sock, disconnected, joined,
                   connMsgVars, head, tail, lpc, epc, gpc, engineLocals,
                   exceptionPtr, engineException, sigint, envVars, histVars>>

\* What main returns when control reaches the end of its body (line 813: no
\* return statement follows the catch block).
MainReturnStatus == 0

\* The exit status of the process once main has returned; a process that was
\* terminated (an exception left main, or undefined behaviour) or still runs
\* has none.
NoStatus == 0 - 1
ExitStatus == IF proc = "exited" THEN MainReturnStatus ELSE NoStatus

\* ------------------------------------------------------------- simulation
\* What the engine computes in startGame, runGame and clearGame: the game
\* state and the events of each Turn message.  The threads, the queue and
\* the connections are the subject of the actions above; here the engine
\* runs on its own, the message a player's connection holds pending in a
\* turn is an input, and so is every value random.next() yields.

\* The cells of the board.
Board == (0 .. sizeX - 1) \X (0 .. sizeY - 1)
\* The player IDs of a game: the indices of joinedPlayers.
PlayerIDs == 0 .. playerCount - 1

U16(n) == n % TurnModulus

\* A generator that adds the constant instead of multiplying by it.
RandomNextAdditive(sd) == (sd + RandomConstant) % RandomModulo

\* Random::next(): seed * constant % modulo, a 64-bit product, computed
\* here without a product that exceeds 31 bits (Schrage's decomposition,
\* exact for a seed below the modulus).
RandomNext(sd) ==
    LET q == RandomModulo \div RandomConstant
        r == RandomModulo % RandomConstant
        v == RandomConstant * (sd % q) - r * (sd \div q)
    IN  IF v < 0 THEN v + RandomModulo ELSE v

\* The cell two calls of random.next() yield, the first for x, and the seed
\* they leave.
RandomCell(sd) == <<RandomNext(sd) % sizeX, RandomNext(RandomNext(sd)) % sizeY>>
AfterCell(sd) == RandomNext(RandomNext(sd))

Max2(a, b) == IF a >= b THEN a ELSE b
Min2(a, b) == IF a <= b THEN a ELSE b

\* DataPosition::operator< : by x, then by y.
PositionLess(p, q) == p[1] < q[1] \/ (p[1] = q[1] /\ p[2] < q[2])
\* DataBomb::operator< : by timer, then by position.
BombLess(a, b) ==
    \/ a.timer < b.timer
    \/ a.timer = b.timer /\ PositionLess(a.position, b.position)
\* An order of the entries by explosion turn and then by bomb ID alone.
EntryLessByID(a, b) ==
    a.timer < b.timer \/ (a.timer = b.timer /\ a.id < b.id)

\* The order of the entries of bombs, pair<DataBomb, DataU32> under
\* std::greater: by bomb, then by bomb ID.
EntryLess(a, b) == BombLess(a, b) \/ (~BombLess(b, a) /\ a.id < b.id)
\* bombs.top()
Top(bs) == CHOOSE a \in bs : \A b \in bs \ {a} : EntryLess(a, b)

\* A default-constructed DataEvent, with the cells processExplosion was
\* called for and the player whose processPlayerMove call pushed the event,
\* -1 if none did (history, not fields of the message).
DataEvent ==
    [type |-> "BombPlaced", bombID |-> 0, position |-> <<0, 0>>,
     playersDestroyed |-> <<>>, blocksDestroyed |-> <<>>, playerID |-> 0,
     cells |-> <<>>, by |-> 0 - 1]

\* The elements of a std::set of numbers in iteration order.
RECURSIVE Ascending(_)
Ascending(S) ==
    IF S = {} THEN <<>> ELSE <<MinOf(S)>> \o Ascending(S \ {MinOf(S)})

\* The bounds of the four loops of processExplosions.
LeftX(p) == U16(Max2(0, p[1] - explosionRadius))
RightX(p) == U16(Min2(sizeX - 1, p[1] + explosionRadius))
LowY(p) == U16(Max2(0, p[2] - explosionRadius))
HighY(p) == U16(Min2(sizeY - 1, p[2] + explosionRadius))

\* The cells the four loops of processExplosions step through when no
\* processExplosion call breaks them.
LeftRay(p) == [i \in 1 .. (p[1] - LeftX(p)) |-> <<p[1] - i, p[2]>>]
RightRay(p) == [i \in 1 .. (RightX(p) - p[1]) |-> <<p[1] + i, p[2]>>]
LowRay(p) == [i \in 1 .. (p[2] - LowY(p)) |-> <<p[1], p[2] - i>>]
HighRay(p) == [i \in 1 .. (HighY(p) - p[2]) |-> <<p[1], p[2] + i>>]

\* A loop that no block breaks.
UntilBoard(ray, bl) == ray

\* A loop of processExplosions: it breaks after the first cell for which
\* processExplosion returns false, a cell of blocks.
UntilBlock(ray, bl) ==
    LET hits == {i \in DOMAIN ray : ray[i] \in bl}
    IN  IF hits = {} THEN ray ELSE SubSeq(ray, 1, MinOf(hits))

\* The cells processExplosions calls processExplosion for, in order, for a
\* bomb at p: the four loops run only if the call for p returned true.
ExplosionCells(p, bl) ==
    IF p \in bl
    THEN <<p>>
    ELSE <<p>> \o UntilBlock(LeftRay(p), bl) \o UntilBlock(RightRay(p), bl)
               \o UntilBlock(LowRay(p), bl) \o UntilBlock(HighRay(p), bl)

\* What the processExplosion calls for these cells push to
\* event.playersDestroyed.
RECURSIVE PlayersOn(_, _)
PlayersOn(cells, pbp) ==
    IF cells = <<>>
    THEN <<>>
    ELSE Ascending(pbp[Head(cells)]) \o PlayersOn(Tail(cells), pbp)

\* The BombExploded event of one iteration of processExplosions' loop.
BombExploded(b, bl, pbp) ==
    LET cells == ExplosionCells(b.position, bl)
    IN  [DataEvent EXCEPT !.type = "BombExploded", !.bombID = b.id,
                          !.playersDestroyed = PlayersOn(cells, pbp),
                          !.blocksDestroyed =
                              SelectSeq(cells, LAMBDA c : c \in bl),
                          !.cells = cells]

\* processExplosions' loop: the events it pushes, and the bombs it leaves.
RECURSIVE Explosions(_, _, _, _)
Explosions(bs, t, bl, pbp) ==
    IF bs = {} \/ Top(bs).timer # t
    THEN <<>>
    ELSE <<BombExploded(Top(bs), bl, pbp)>>
             \o Explosions(bs \ {Top(bs)}, t, bl, pbp)

RECURSIVE Unexploded(_, _)
Unexploded(bs, t) ==
    IF bs = {} \/ Top(bs).timer # t
    THEN bs
    ELSE Unexploded(bs \ {Top(bs)}, t)

Range(s) == {s[i] : i \in DOMAIN s}

\* The blocksDestroyed and playersDestroyed sets after processExplosions.
DestroyedBlocks(events) ==
    UNION {Range(events[i].blocksDestroyed) : i \in DOMAIN events}
DestroyedPlayers(events) ==
    UNION {Range(events[i].playersDestroyed) : i \in DOMAIN events}

\* A score that the respawn leaves as it is.
Unincremented(scores, p) == scores

\* playerScores.map[{playerID}].value++ (a uint32_t: the scores and the bomb
\* IDs of the games modelled stay far below its width)
Incremented(scores, p) ==
    IF p \in DOMAIN scores
    THEN [scores EXCEPT ![p] = @ + 1]
    ELSE scores @@ (p :> 1)

\* playersByPosition[from].erase(p); playersByPosition[to].insert(p)
Relocated(pbp, p, from, to) ==
    [c \in DOMAIN pbp |->
        IF c = to THEN pbp[c] \cup {p}
        ELSE IF c = from THEN pbp[c] \ {p}
        ELSE pbp[c]]

\* A Move that takes Up for y - 1 and Down for y + 1.
TargetFlipped(p, d) ==
    CASE d = "Left"  -> <<p[1] - 1, p[2]>>
      [] d = "Right" -> <<p[1] + 1, p[2]>>
      [] d = "Down"  -> <<p[1], p[2] + 1>>
      [] d = "Up"    -> <<p[1], p[2] - 1>>

\* The cell a Move in direction d aims at.
Target(p, d) ==
    CASE d = "Left"  -> <<p[1] - 1, p[2]>>
      [] d = "Right" -> <<p[1] + 1, p[2]>>
      [] d = "Down"  -> <<p[1], p[2] - 1>>
      [] d = "Up"    -> <<p[1], p[2] + 1>>

Directions == {"Up", "Right", "Down", "Left"}
\* What a player's connection holds in a turn: no pending message, or a
\* pending PlaceBomb, PlaceBlock or Move.
Inputs == {"none", "PlaceBomb", "PlaceBlock"} \cup Directions

\* "Mark message as read" (lines 527-532): the pending message of p's
\* connection, if there is one, is consumed whatever the player did.
MarkedRead(s, p, m) ==
    [s EXCEPT !.consumed = IF m # "none" THEN @ \cup {p} ELSE @]

\* processPlayerMove(p, turnMessage) on the game state s, when the player's
\* connection holds m.
ProcessPlayerMove(s, p, m, t) ==
    LET pos == s.position[p]
        r == RandomCell(s.seed)
        moved(to) ==
            [DataEvent EXCEPT !.type = "PlayerMoved", !.playerID = p,
                              !.position = to, !.by = p]
    IN  MarkedRead(
        IF p \in s.playersDestroyed
        THEN [s EXCEPT !.position[p] = r,
                       !.seed = AfterCell(@),
                       !.playersByPosition =
                           Relocated(s.playersByPosition, p, pos, r),
                       !.playerScores = Incremented(s.playerScores, p),
                       !.events = Append(@, moved(r))]
        ELSE IF m = "PlaceBomb"
        THEN [s EXCEPT !.nextBombID = @ + 1,
                       !.bombs = @ \cup {[position |-> pos,
                                          timer |-> U16(t + bombTimer),
                                          id |-> s.nextBombID]},
                       !.events =
                           Append(@, [DataEvent EXCEPT
                                          !.bombID = s.nextBombID,
                                          !.position = pos, !.by = p])]
        ELSE IF m = "PlaceBlock"
        THEN IF pos \in s.blocks
             THEN s
             ELSE [s EXCEPT !.blocks = @ \cup {pos},
                            !.events =
                                Append(@, [DataEvent EXCEPT
                                               !.type = "BlockPlaced",
                                               !.position = pos,
                                               !.by = p])]
        ELSE IF m \in Directions
        THEN IF Target(pos, m) \notin Board \/ Target(pos, m) \in s.blocks
             THEN s
             ELSE [s EXCEPT !.position[p] = Target(pos, m),
                            !.playersByPosition =
                                Relocated(s.playersByPosition, p, pos,
                                          Target(pos, m)),
                            !.events = Append(@, moved(Target(pos, m)))]
        ELSE s, p, m)

\* The loop over the players run from the last player down to player p.
RECURSIVE ProcessPlayerMovesDescending(_, _, _, _)
ProcessPlayerMovesDescending(s, p, ms, t) ==
    IF p = playerCount
    THEN s
    ELSE ProcessPlayerMove(ProcessPlayerMovesDescending(s, p + 1, ms, t),
                           p, ms[p], t)

\* runGame's loop over the players, from player p on.
RECURSIVE ProcessPlayerMoves(_, _, _, _)
ProcessPlayerMoves(s, p, ms, t) ==
    IF p = playerCount
    THEN s
    ELSE ProcessPlayerMoves(ProcessPlayerMove(s, p, ms[p], t), p + 1, ms, t)

\* The game state after one iteration of runGame's loop, for turn t.
TurnResult(t, ms) ==
    LET events == Explosions(bombs, t, blocks, playersByPosition)
    IN  ProcessPlayerMoves(
            [position |-> position,
             blocks |-> blocks \ DestroyedBlocks(events),
             bombs |-> Unexploded(bombs, t),
             nextBombID |-> nextBombID,
             seed |-> seed,
             playerScores |-> playerScores,
             playersByPosition |-> playersByPosition,
             playersDestroyed |-> DestroyedPlayers(events),
             blocksDestroyed |-> DestroyedBlocks(events),
             consumed |-> {},
             events |-> events],
            0, ms, t)

\* ----------------------------------------------------------------- client
\* The client's listenToServer thread (src/robots-client.cpp): it decodes
\* each server message into inServerMessage, the one DataServerMessage it
\* declares before its loop, and folds it into outDrawMessage.

\* A default-constructed DataServerMessage (the fields the fold reads).
DataServerMessage ==
    [type |-> "Hello", playerCount |-> 0, sizeX |-> 0, sizeY |-> 0,
     gameLength |-> 0, explosionRadius |-> 0, bombTimer |-> 0, playerID |-> 0,
     turn |-> 0, players |-> {}, events |-> <<>>, scores |-> <<>>]

\* A default-constructed DataDrawMessage.  blocks and explosions are
\* multisets of cells, bombs is a list of DataBomb, players a set of player
\* IDs (the keys of the map), playerPositions and scores are maps.
DataDrawMessage ==
    [type |-> "Lobby", playerCount |-> 0, sizeX |-> 0, sizeY |-> 0,
     gameLength |-> 0, explosionRadius |-> 0, bombTimer |-> 0, turn |-> 0,
     players |-> {}, playerPositions |-> <<>>, blocks |-> EmptyBag,
     bombs |-> <<>>, explosions |-> EmptyBag, scores |-> <<>>]

\* operator>>(Buffer &, DataServerMessage &) applied to the object in that
\* already holds what earlier messages left in it, for the message m on the
\* wire: it assigns the type and the fields of that type; a DataMap is
\* cleared before it is filled, a DataList is appended to.
Decode(in, m) ==
    CASE m.type = "Hello" ->
            [in EXCEPT !.type = m.type, !.playerCount = m.playerCount,
                       !.sizeX = m.sizeX, !.sizeY = m.sizeY,
                       !.gameLength = m.gameLength,
                       !.explosionRadius = m.explosionRadius,
                       !.bombTimer = m.bombTimer]
      [] m.type = "AcceptedPlayer" ->
            [in EXCEPT !.type = m.type, !.playerID = m.playerID]
      [] m.type = "GameStarted" ->
            [in EXCEPT !.type = m.type, !.players = m.players]
      [] m.type = "Turn" ->
            [in EXCEPT !.type = m.type, !.turn = m.turn,
                       !.events = @ \o m.events]
      [] m.type = "GameEnded" ->
            [in EXCEPT !.type = m.type, !.scores = m.scores]

\* std::map::insert({k, v}): an existing key keeps its value.
Inserted(map, k, v) == IF k \in DOMAIN map THEN map ELSE map @@ (k :> v)
\* map[k] = v
Assigned(map, k, v) ==
    IF k \in DOMAIN map THEN [map EXCEPT ![k] = v] ELSE map @@ (k :> v)
\* map.erase(k), multiset.erase(k)
Erased(map, k) == [j \in DOMAIN map \ {k} |-> map[j]]

RECURSIVE ErasedAll(_, _)
ErasedAll(map, ks) ==
    IF ks = {}
    THEN map
    ELSE LET k == CHOOSE j \in ks : TRUE
         IN  ErasedAll(Erased(map, k), ks \ {k})

\* multiset.insert of every cell of a sequence
RECURSIVE InsertedAll(_, _)
InsertedAll(bag, cells) ==
    IF cells = <<>>
    THEN bag
    ELSE InsertedAll(bag (+) SetToBag({Head(cells)}), Tail(cells))

\* The cells one of the four loops of processTurnMessage inserts into
\* explosions: it starts on the bomb's cell and breaks after a cell of
\* blocks.
ClientRay(p, dx, dy, n, bl) ==
    UntilBlock([i \in 1 .. n + 1 |->
                   <<p[1] + (i - 1) * dx, p[2] + (i - 1) * dy>>],
               BagToSet(bl))

ClientExplosion(p, d) ==
    LET r == d.explosionRadius
        leftX == U16(Max2(0, p[1] - r))
        rightX == U16(Min2(d.sizeX - 1, p[1] + r))
        lowY == U16(Max2(0, p[2] - r))
        highY == U16(Min2(d.sizeY - 1, p[2] + r))
    IN  ClientRay(p, 0 - 1, 0, p[1] - leftX, d.blocks)
          \o ClientRay(p, 1, 0, rightX - p[1], d.blocks)
          \o ClientRay(p, 0, 0 - 1, p[2] - lowY, d.blocks)
          \o ClientRay(p, 0, 1, highY - p[2], d.blocks)

\* One iteration of processTurnMessage's loop over the events: c holds the
\* client's draw, activeBombs, destroyedPlayers and destroyedBlocks.
ProcessEvent(c, e, in) ==
    CASE e.type = "BombPlaced" ->
            [c EXCEPT !.activeBombs =
                          Assigned(@, e.bombID,
                                   [position |-> e.position,
                                    timer |-> in.bombTimer])]
      [] e.type = "BombExploded" ->
            LET p == IF e.bombID \in DOMAIN c.activeBombs
                     THEN c.activeBombs[e.bombID].position
                     ELSE <<0, 0>>
            IN  [c EXCEPT !.draw.explosions =
                              InsertedAll(@, ClientExplosion(p, c.draw)),
                          !.activeBombs = Erased(@, e.bombID),
                          !.destroyedPlayers =
                              @ \cup Range(e.playersDestroyed),
                          !.destroyedBlocks =
                              @ \cup Range(e.blocksDestroyed)]
      [] e.type = "PlayerMoved" ->
            [c EXCEPT !.draw.playerPositions =
                          Assigned(@, e.playerID, e.position)]
      [] e.type = "BlockPlaced" ->
            [c EXCEPT !.draw.blocks = @ (+) SetToBag({e.position})]

RECURSIVE ProcessEvents(_, _, _)
ProcessEvents(c, events, in) ==
    IF events = <<>>
    THEN c
    ELSE ProcessEvents(ProcessEvent(c, Head(events), in), Tail(events), in)

RECURSIVE IncrementedAll(_, _)
IncrementedAll(scores, ps) ==
    IF ps = {}
    THEN scores
    ELSE IncrementedAll(Incremented(scores, MinOf(ps)), ps \ {MinOf(ps)})

\* The values of activeBombs, in ascending order of bomb ID (the order of
\* an unordered_map is the implementation's; this is one of its orders).
RECURSIVE BombList(_)
BombList(ab) ==
    IF DOMAIN ab = {}
    THEN <<>>
    ELSE <<ab[MinOf(DOMAIN ab)]>> \o BombList(Erased(ab, MinOf(DOMAIN ab)))

\* processTurnMessage(in), on the client state c.
ProcessTurnMessage(c, in) ==
    LET ticked ==
            [c EXCEPT !.activeBombs =
                          [id \in DOMAIN @ |->
                              [@[id] EXCEPT !.timer = U16(@ - 1)]],
                      !.draw.explosions = EmptyBag,
                      !.draw.turn = in.turn]
        folded == ProcessEvents(ticked, in.events, in)
    IN  [folded EXCEPT
            !.draw.bombs = BombList(folded.activeBombs),
            !.draw.scores = IncrementedAll(@, folded.destroyedPlayers),
            !.draw.blocks = ErasedAll(@, folded.destroyedBlocks)]

\* processServerMessage(in), on the client state c.
ProcessServerMessage(c0, in) ==
    LET c == [c0 EXCEPT !.destroyedPlayers = {}, !.destroyedBlocks = {}]
    IN  CASE in.type = "Hello" ->
                [c EXCEPT !.draw.playerCount = in.playerCount,
                          !.draw.sizeX = in.sizeX, !.draw.sizeY = in.sizeY,
                          !.draw.gameLength = in.gameLength,
                          !.draw.explosionRadius = in.explosionRadius,
                          !.draw.bombTimer = in.bombTimer]
          [] in.type = "AcceptedPlayer" ->
                [c EXCEPT !.draw.players = @ \cup {in.playerID},
                          !.draw.scores = Inserted(@, in.playerID, 0)]
          [] in.type = "GameStarted" ->
                [c EXCEPT !.state = "Game", !.draw.type = "Game",
                          !.draw.players = in.players,
                          !.draw.playerPositions = <<>>,
                          !.draw.blocks = EmptyBag,
                          !.draw.scores = [p \in in.players |-> 0]]
          [] in.type = "Turn" -> ProcessTurnMessage(c, in)
          [] in.type = "GameEnded" ->
                [c EXCEPT !.state = "Lobby", !.activeBombs = <<>>,
                          !.draw.type = "Lobby",
                          !.draw.playerPositions = <<>>,
                          !.draw.blocks = EmptyBag, !.draw.bombs = <<>>,
                          !.draw.scores = in.scores]

\* ------------------------------------------------------------------ codec
\* operator<< and operator>> of src/messages.h on the bytes of a Buffer.  A
\* decoder takes the bytes not yet read and yields whether it returned
\* without an exception, the value it read and the bytes it left unread.

Take(b, n) == SubSeq(b, 1, n)
Drop(b, n) == SubSeq(b, n + 1, Len(b))
\* The sequences of at most n elements of S.
RECURSIVE SeqsUpTo(_, _)
SeqsUpTo(S, n) ==
    IF n = 0
    THEN {<<>>}
    ELSE SeqsUpTo(S, n - 1)
           \cup {Append(s, b) : s \in SeqsUpTo(S, n - 1), b \in S}
Datagrams == SeqsUpTo(0 .. MaxDatagramByte, MaxDatagramLen)
\* The values of --player-name.
PlayerNames == SeqsUpTo({MaxU8}, MaxNameLen)

\* InputMessageEnum, ClientMessageEnum and DirectionEnum: the value of a tag.
InputMessageEnum == <<"PlaceBomb", "PlaceBlock", "Move">>
ClientMessageEnum == <<"Join", "PlaceBomb", "PlaceBlock", "Move">>
DirectionEnum == <<"Up", "Right", "Down", "Left">>
\* static_cast<uint8_t> of an enumerator.
TagOf(enum, v) == (CHOOSE i \in DOMAIN enum : enum[i] = v) - 1

\* Default-constructed DataInputMessage and DataClientMessage.
DataInputMessage == [type |-> "PlaceBomb", direction |-> "Up"]
DataClientMessage == [type |-> "Join", name |-> <<>>, direction |-> "Up"]

\* The decoder left by exception e with the object msg and the bytes b
\* unread.
Thrown(msg, e, b) == [msg |-> msg, result |-> e, rest |-> b]

\* operator>>(Buffer &, DataInputMessage &) on a UDPBuffer that received the
\* datagram d: the object after it, and "ok" or the exception thrown.  pull
\* throws BadRead when the datagram has no byte left; the type is assigned
\* before the direction is read.
DecodeInput(in, d) ==
    IF Len(d) < 1 THEN Thrown(in, "BadRead", d)
    ELSE IF d[1] > 2 THEN Thrown(in, "BadType", Drop(d, 1))
    ELSE LET typed == [in EXCEPT !.type = InputMessageEnum[d[1] + 1]]
         IN  IF typed.type # "Move"
             THEN [msg |-> typed, result |-> "ok", rest |-> Drop(d, 1)]
             ELSE IF Len(d) < 2 THEN Thrown(typed, "BadRead", Drop(d, 1))
             ELSE IF d[2] > 3 THEN Thrown(typed, "BadType", Drop(d, 2))
             ELSE [msg |-> [typed EXCEPT !.direction = DirectionEnum[d[2] + 1]],
                   result |-> "ok", rest |-> Drop(d, 2)]

\* What a decoder yields when it throws the exception e with the bytes b
\* unread (pull found too few bytes: BadRead; a tag was out of range:
\* BadType), and when it returns the value v.
Throw(e, b) == [ok |-> FALSE, val |-> 0, rest |-> b, err |-> e]
Read(v, b) == [ok |-> TRUE, val |-> v, rest |-> b, err |-> ""]
\* Nothing was decoded yet.
Undecoded == Throw("", <<>>)
\* buffer >> a >> b: what follows is applied to what the decoder
\* before it yields, unless that decoder has thrown.
Chained(r, Following(_)) == IF r.ok THEN Following(r) ELSE r

\* Buffer::writeU8, writeU16, writeU32: big-endian (htobe16, htobe32).
EncodeU8(n) == <<n % ByteModulus>>
EncodeU16LittleEndian(n) == <<n % ByteModulus, (n \div ByteModulus) % ByteModulus>>
EncodeU16(n) == <<(n \div ByteModulus) % ByteModulus, n % ByteModulus>>
EncodeU32(n) == EncodeU16(n \div (ByteModulus * ByteModulus))
                  \o EncodeU16(n % (ByteModulus * ByteModulus))

\* DataString's operator<< : the size as a uint8_t, then the bytes.
EncodeString(s) == <<Len(s) % ByteModulus>> \o s

\* Buffer::readU8, readU16, readU32, readStr.
ReadU8(b) ==
    IF Len(b) < 1 THEN Throw("BadRead", b) ELSE Read(b[1], Drop(b, 1))
ReadU16(b) ==
    IF Len(b) < 2
    THEN Throw("BadRead", b)
    ELSE Read(b[1] * ByteModulus + b[2], Drop(b, 2))
ReadU32(b) ==
    IF Len(b) < 4
    THEN Throw("BadRead", b)
    ELSE Read(((b[1] * ByteModulus + b[2]) * ByteModulus + b[3]) * ByteModulus
                + b[4], Drop(b, 4))
ReadStr(b, n) ==
    IF Len(b) < n THEN Throw("BadRead", b) ELSE Read(Take(b, n), Drop(b, n))

\* DataString's operator>>.
DecodeString(b) == Chained(ReadU8(b), LAMBDA n : ReadStr(n.rest, n.val))

\* An operator>> that casts the tag without the range check.
DecodeEnumUnchecked(enum, b) ==
    Chained(ReadU8(b),
            LAMBDA t : Read(enum[(t.val % Len(enum)) + 1], t.rest))

\* An enumeration's operator>> : a tag above the last enumerator is BadType.
DecodeEnum(enum, b) ==
    Chained(ReadU8(b),
            LAMBDA t : IF t.val > Len(enum) - 1
                       THEN Throw("BadType", t.rest)
                       ELSE Read(enum[t.val + 1], t.rest))

EventEnum == <<"BombPlaced", "BombExploded", "PlayerMoved", "BlockPlaced">>
ServerMessageEnum ==
    <<"Hello", "AcceptedPlayer", "GameStarted", "Turn", "GameEnded">>
DrawMessageEnum == <<"Lobby", "Game">>

\* Default-constructed DataPlayer, and DataEvent with the fields of the
\* message only.
DataPlayer == [name |-> <<>>, address |-> <<>>]
WireEvent ==
    [type |-> "BombPlaced", bombID |-> 0, position |-> <<0, 0>>,
     playersDestroyed |-> <<>>, blocksDestroyed |-> <<>>, playerID |-> 0]

RECURSIVE Concat(_)
Concat(ss) == IF ss = <<>> THEN <<>> ELSE Head(ss) \o Concat(Tail(ss))

\* operator<< of the Data classes, by class: "List U8" is DataList<DataU8>.
RECURSIVE EncodeData(_, _)
\* DataList's operator<< : the size as a uint32_t, then the elements.
EncodeList(class, l) ==
    EncodeU32(Len(l))
      \o Concat([i \in 1 .. Len(l) |-> EncodeData(class, l[i])])
EncodeData(class, v) ==
    CASE class = "U8" -> EncodeU8(v)
      [] class = "U16" -> EncodeU16(v)
      [] class = "U32" -> EncodeU32(v)
      [] class = "String" -> EncodeString(v)
      [] class = "Player" -> EncodeString(v.name) \o EncodeString(v.address)
      [] class = "Direction" -> <<TagOf(DirectionEnum, v)>>
      [] class = "Position" -> EncodeU16(v[1]) \o EncodeU16(v[2])
      [] class = "Bomb" ->
            EncodeData("Position", v.position) \o EncodeU16(v.timer)
      [] class = "Event" ->
            <<TagOf(EventEnum, v.type)>>
              \o (CASE v.type = "BombPlaced" ->
                         EncodeU32(v.bombID)
                           \o EncodeData("Position", v.position)
                    [] v.type = "BombExploded" ->
                         EncodeU32(v.bombID)
                           \o EncodeList("U8", v.playersDestroyed)
                           \o EncodeList("Position", v.blocksDestroyed)
                    [] v.type = "PlayerMoved" ->
                         EncodeU8(v.playerID)
                           \o EncodeData("Position", v.position)
                    [] v.type = "BlockPlaced" ->
                         EncodeData("Position", v.position))

\* DataMap's operator<< : the size, then key and value in the order of the
\* keys (DataU8).
EncodeMap(class, map) ==
    EncodeU32(Cardinality(DOMAIN map))
      \o Concat([i \in 1 .. Cardinality(DOMAIN map) |->
                   EncodeU8(Ascending(DOMAIN map)[i])
                     \o EncodeData(class, map[Ascending(DOMAIN map)[i]])])

\* The elements of a std::multiset of positions in iteration order.
RECURSIVE InOrder(_)
InOrder(bag) ==
    IF BagToSet(bag) = {}
    THEN <<>>
    ELSE LET p == CHOOSE a \in BagToSet(bag) :
                      \A c \in BagToSet(bag) \ {a} : PositionLess(a, c)
         IN  <<p>> \o InOrder(bag (-) SetToBag({p}))
\* DataMultiset's operator<<.
EncodeMultiset(class, bag) == EncodeList(class, InOrder(bag))

\* operator>> of the Data classes into a default-constructed object.
RECURSIVE DecodeData(_, _)
RECURSIVE DecodeElements(_, _, _, _)
\* The loop of the operator>> of DataList: size elements are read and pushed
\* back to list.
DecodeElements(class, b, size, list) ==
    IF size = 0
    THEN Read(list, b)
    ELSE Chained(DecodeData(class, b),
                 LAMBDA t : DecodeElements(class, t.rest, size - 1,
                                           Append(list, t.val)))
\* DataList's operator>> on the list list.
DecodeList(class, b, list) ==
    Chained(ReadU32(b),
            LAMBDA size : DecodeElements(class, size.rest, size.val, list))
DecodeData(class, b) ==
    CASE class = "U8" -> ReadU8(b)
      [] class = "U16" -> ReadU16(b)
      [] class = "U32" -> ReadU32(b)
      [] class = "String" -> DecodeString(b)
      [] class = "Direction" -> DecodeEnum(DirectionEnum, b)
      [] class = "Player" ->
            Chained(DecodeString(b), LAMBDA name :
            Chained(DecodeString(name.rest), LAMBDA address :
            Read([name |-> name.val, address |-> address.val],
                 address.rest)))
      [] class = "Position" ->
            Chained(ReadU16(b), LAMBDA x :
            Chained(ReadU16(x.rest), LAMBDA y :
            Read(<<x.val, y.val>>, y.rest)))
      [] class = "Bomb" ->
            Chained(DecodeData("Position", b), LAMBDA at :
            Chained(ReadU16(at.rest), LAMBDA timer :
            Read([position |-> at.val, timer |-> timer.val], timer.rest)))
      [] class = "Event" ->
            Chained(DecodeEnum(EventEnum, b), LAMBDA type :
            CASE type.val = "BombPlaced" ->
                    Chained(ReadU32(type.rest), LAMBDA bombID :
                    Chained(DecodeData("Position", bombID.rest), LAMBDA at :
                    Read([WireEvent EXCEPT !.type = type.val,
                                           !.bombID = bombID.val,
                                           !.position = at.val], at.rest)))
              [] type.val = "BombExploded" ->
                    Chained(ReadU32(type.rest), LAMBDA bombID :
                    Chained(DecodeList("U8", bombID.rest, <<>>),
                            LAMBDA players :
                    Chained(DecodeList("Position", players.rest, <<>>),
                            LAMBDA destroyed :
                    Read([WireEvent EXCEPT
                            !.type = type.val, !.bombID = bombID.val,
                            !.playersDestroyed = players.val,
                            !.blocksDestroyed = destroyed.val],
                         destroyed.rest))))
              [] type.val = "PlayerMoved" ->
                    Chained(ReadU8(type.rest), LAMBDA playerID :
                    Chained(DecodeData("Position", playerID.rest), LAMBDA at :
                    Read([WireEvent EXCEPT !.type = type.val,
                                           !.playerID = playerID.val,
                                           !.position = at.val], at.rest)))
              [] type.val = "BlockPlaced" ->
                    Chained(DecodeData("Position", type.rest), LAMBDA at :
                    Read([WireEvent EXCEPT !.type = type.val,
                                           !.position = at.val], at.rest)))

\* The loop of the operator>> of DataMap: map.insert({key, value}).
RECURSIVE DecodePairs(_, _, _, _)
DecodePairs(class, b, length, map) ==
    IF length = 0
    THEN Read(map, b)
    ELSE Chained(ReadU8(b), LAMBDA key :
         Chained(DecodeData(class, key.rest), LAMBDA value :
         DecodePairs(class, value.rest, length - 1,
                     Inserted(map, key.val, value.val))))
\* DataMap's operator>> : the map is cleared first.
DecodeMap(class, b) ==
    Chained(ReadU32(b),
            LAMBDA length : DecodePairs(class, length.rest, length.val, <<>>))

\* DataMultiset's operator>> on the multiset bag: set.insert(t).
DecodeMultiset(class, b, bag) ==
    Chained(DecodeList(class, b, <<>>), LAMBDA l :
            Read(bag (+) [p \in {l.val[i] : i \in DOMAIN l.val} |->
                            Cardinality({i \in DOMAIN l.val : l.val[i] = p})],
                 l.rest))

\* Default-constructed DataServerMessage and DataDrawMessage with every
\* field of the class.
WireServerMessage ==
    [type |-> "Hello", serverName |-> <<>>, playerCount |-> 0, sizeX |-> 0,
     sizeY |-> 0, gameLength |-> 0, explosionRadius |-> 0, bombTimer |-> 0,
     playerID |-> 0, player |-> DataPlayer, turn |-> 0, players |-> <<>>,
     events |-> <<>>, scores |-> <<>>]
WireDrawMessage ==
    [type |-> "Lobby", serverName |-> <<>>, playerCount |-> 0, sizeX |-> 0,
     sizeY |-> 0, gameLength |-> 0, explosionRadius |-> 0, bombTimer |-> 0,
     turn |-> 0, players |-> <<>>, playerPositions |-> <<>>,
     blocks |-> EmptyBag, bombs |-> <<>>, explosions |-> <<>>,
     scores |-> <<>>]

\* The four message classes, their enumerations and their objects.
Families == {"Client", "Server", "Input", "Draw"}
MessageEnum(family) ==
    CASE family = "Client" -> ClientMessageEnum
      [] family = "Server" -> ServerMessageEnum
      [] family = "Input" -> InputMessageEnum
      [] family = "Draw" -> DrawMessageEnum
Fresh(family) ==
    CASE family = "Client" -> DataClientMessage
      [] family = "Server" -> WireServerMessage
      [] family = "Input" -> DataInputMessage
      [] family = "Draw" -> WireDrawMessage

\* A member in a chain of << or >> : its name, its container and its class.
Member(name, container, class) ==
    [name |-> name, container |-> container, class |-> class]

\* The chain of << of each case of the switch of a message's operator<<.
EncodedMembers(family, type) ==
    CASE family = "Client" /\ type = "Join" ->
            <<Member("name", "", "String")>>
      [] family = "Client" /\ type = "Move" ->
            <<Member("direction", "", "Direction")>>
      [] family = "Server" /\ type = "Hello" ->
            <<Member("serverName", "", "String"),
              Member("playerCount", "", "U8"), Member("sizeX", "", "U16"),
              Member("sizeY", "", "U16"), Member("gameLength", "", "U16"),
              Member("explosionRadius", "", "U16"),
              Member("bombTimer", "", "U16")>>
      [] family = "Server" /\ type = "AcceptedPlayer" ->
            <<Member("playerID", "", "U8"), Member("player", "", "Player")>>
      [] family = "Server" /\ type = "GameStarted" ->
            <<Member("players", "Map", "Player")>>
      [] family = "Server" /\ type = "Turn" ->
            <<Member("turn", "", "U16"), Member("events", "List", "Event")>>
      [] family = "Server" /\ type = "GameEnded" ->
            <<Member("scores", "Map", "U32")>>
      [] family = "Input" /\ type = "Move" ->
            <<Member("direction", "", "Direction")>>
      [] family = "Draw" /\ type = "Lobby" ->
            <<Member("serverName", "", "String"),
              Member("playerCount", "", "U8"), Member("sizeX", "", "U16"),
              Member("sizeY", "", "U16"), Member("gameLength", "", "U16"),
              Member("explosionRadius", "", "U16"),
              Member("bombTimer", "", "U16"),
              Member("players", "Map", "Player")>>
      [] family = "Draw" /\ type = "Game" ->
            <<Member("serverName", "", "String"), Member("sizeX", "", "U16"),
              Member("sizeY", "", "U16"), Member("gameLength", "", "U16"),
              Member("turn", "", "U16"), Member("players", "Map", "Player"),
              Member("playerPositions", "Map", "Position"),
              Member("blocks", "Multiset", "Position"),
              Member("bombs", "List", "Bomb"),
              Member("explosions", "List", "Position"),
              Member("scores", "Map", "U32")>>
      [] OTHER -> <<>>

\* The chain of >> of each case of the switch of a message's operator>>.
DecodedMembers(family, type) ==
    CASE family = "Client" /\ type = "Join" ->
            <<Member("name", "", "String")>>
      [] family = "Client" /\ type = "Move" ->
            <<Member("direction", "", "Direction")>>
      [] family = "Server" /\ type = "Hello" ->
            <<Member("serverName", "", "String"),
              Member("playerCount", "", "U8"), Member("sizeX", "", "U16"),
              Member("sizeY", "", "U16"), Member("gameLength", "", "U16"),
              Member("explosionRadius", "", "U16"),
              Member("bombTimer", "", "U16")>>
      [] family = "Server" /\ type = "AcceptedPlayer" ->
            <<Member("playerID", "", "U8"), Member("player", "", "Player")>>
      [] family = "Server" /\ type = "GameStarted" ->
            <<Member("players", "Map", "Player")>>
      [] family = "Server" /\ type = "Turn" ->
            <<Member("turn", "", "U16"), Member("events", "List", "Event")>>
      [] family = "Server" /\ type = "GameEnded" ->
            <<Member("scores", "Map", "U32")>>
      [] family = "Draw" /\ type = "Lobby" ->
            <<Member("serverName", "", "String"),
              Member("playerCount", "", "U8"), Member("sizeX", "", "U16"),
              Member("sizeY", "", "U16"), Member("gameLength", "", "U16"),
              Member("explosionRadius", "", "U16"),
              Member("bombTimer", "", "U16"),
              Member("players", "Map", "Player")>>
      [] family = "Draw" /\ type = "Game" ->
            <<Member("serverName", "", "String"), Member("sizeX", "", "U16"),
              Member("sizeY", "", "U16"), Member("gameLength", "", "U16"),
              Member("turn", "", "U16"), Member("players", "Map", "Player"),
              Member("playerPositions", "Map", "Position"),
              Member("blocks", "Multiset", "Position"),
              Member("bombs", "List", "Bomb"),
              Member("explosions", "List", "Position"),
              Member("scores", "Map", "U32")>>
      [] OTHER -> <<>>

\* buffer << member
EncodeMember(m, x) ==
    CASE m.container = "List" -> EncodeList(m.class, x)
      [] m.container = "Map" -> EncodeMap(m.class, x)
      [] m.container = "Multiset" -> EncodeMultiset(m.class, x)
      [] OTHER -> EncodeData(m.class, x)

\* A message's operator<< : the bytes written before bSend sends them.
EncodeMessage(family, v) ==
    <<TagOf(MessageEnum(family), v.type)>>
      \o Concat([i \in 1 .. Len(EncodedMembers(family, v.type)) |->
                   EncodeMember(EncodedMembers(family, v.type)[i],
                                v[EncodedMembers(family, v.type)[i].name])])

\* buffer >> member, on the member's value old.
DecodeMember(m, b, old) ==
    CASE m.container = "List" -> DecodeList(m.class, b, old)
      [] m.container = "Map" -> DecodeMap(m.class, b)
      [] m.container = "Multiset" -> DecodeMultiset(m.class, b, old)
      [] OTHER -> DecodeData(m.class, b)

RECURSIVE DecodeMembers(_, _, _)
DecodeMembers(members, b, obj) ==
    IF members = <<>>
    THEN Read(obj, b)
    ELSE Chained(DecodeMember(Head(members), b, obj[Head(members).name]),
                 LAMBDA r : DecodeMembers(Tail(members), r.rest,
                                          [obj EXCEPT
                                             ![Head(members).name] = r.val]))

\* A message's operator>> on the object obj, the bytes b being those received
\* and to be received.
DecodeMessage(family, b, obj) ==
    IF family = "Input"
    THEN LET r == DecodeInput(obj, b)
         IN  IF r.result = "ok" THEN Read(r.msg, r.rest)
             ELSE Throw(r.result, r.rest)
    ELSE Chained(DecodeEnum(MessageEnum(family), b), LAMBDA type :
                 DecodeMembers(DecodedMembers(family, type.val), type.rest,
                               [obj EXCEPT !.type = type.val]))

\* Values of the members of messages.
LongString == [i \in 1 .. MaxStringLen |-> MaxU8]
Strings == {<<>>, <<MaxU8, 0>>, LongString}
Players == {[name |-> <<>>, address |-> <<0>>],
            [name |-> <<MaxU8>>, address |-> LongString]}
U8s == {0, MaxU8}
U16s == {0, WideU16, MaxU16}
U32s == {0, WideU32}
Positions == {<<0, WideU16>>, <<WideU16, 0>>}
Maps(values) == {<<>>} \cup {0 :> v : v \in values}
                  \cup {(0 :> v) @@ (MaxU8 :> w) : v \in values, w \in values}
Lists(values) == SeqsUpTo(values, MaxListLen)
Bombs == {[position |-> p, timer |-> WideU16] : p \in Positions}
Events ==
    {[WireEvent EXCEPT !.type = "BombPlaced", !.bombID = WideU32,
                       !.position = p] : p \in Positions}
      \cup {[WireEvent EXCEPT !.type = "BombExploded", !.bombID = i,
                              !.playersDestroyed = ps,
                              !.blocksDestroyed = bs] :
              i \in U32s, ps \in {<<>>, <<MaxU8, 0>>},
              bs \in {<<>>, <<<<0, WideU16>>, <<0, WideU16>>>>}}
      \cup {[WireEvent EXCEPT !.type = "PlayerMoved", !.playerID = MaxU8,
                              !.position = p] : p \in Positions}
      \cup {[WireEvent EXCEPT !.type = "BlockPlaced", !.position = p] :
              p \in Positions}
Bags == {EmptyBag} \cup {SetToBag(S) : S \in SUBSET Positions \ {{}}}
          \cup {SetToBag(Positions) (+) SetToBag({p}) : p \in Positions}
\* sizeX, sizeY, gameLength, explosionRadius, bombTimer
Settings == {<<0, 0, 0, 0, 0>>, <<WideU16, 1, MaxU16, 2, WideU16 + 1>>}

\* The well-formed values of each class of message.
Values(family) ==
    CASE family = "Client" ->
            {[DataClientMessage EXCEPT !.type = "Join", !.name = s] :
               s \in Strings}
              \cup {[DataClientMessage EXCEPT !.type = t] :
                      t \in {"PlaceBomb", "PlaceBlock"}}
              \cup {[DataClientMessage EXCEPT !.type = "Move",
                                              !.direction = d] :
                      d \in Range(DirectionEnum)}
      [] family = "Input" ->
            {[DataInputMessage EXCEPT !.type = t] :
               t \in {"PlaceBomb", "PlaceBlock"}}
              \cup {[DataInputMessage EXCEPT !.type = "Move",
                                             !.direction = d] :
                      d \in Range(DirectionEnum)}
      [] family = "Server" ->
            {[WireServerMessage EXCEPT
                !.type = "Hello", !.serverName = s, !.playerCount = n,
                !.sizeX = c[1], !.sizeY = c[2], !.gameLength = c[3],
                !.explosionRadius = c[4], !.bombTimer = c[5]] :
               s \in Strings, n \in U8s, c \in Settings}
              \cup {[WireServerMessage EXCEPT
                       !.type = "AcceptedPlayer", !.playerID = n,
                       !.player = p] : n \in U8s, p \in Players}
              \cup {[WireServerMessage EXCEPT
                       !.type = "GameStarted", !.players = ps] :
                      ps \in Maps(Players)}
              \cup {[WireServerMessage EXCEPT
                       !.type = "Turn", !.turn = t, !.events = es] :
                      t \in U16s, es \in Lists(Events)}
              \cup {[WireServerMessage EXCEPT
                       !.type = "GameEnded", !.scores = ss] :
                      ss \in Maps(U32s)}
      [] family = "Draw" ->
            {[WireDrawMessage EXCEPT
                !.type = "Lobby", !.serverName = s, !.playerCount = n,
                !.sizeX = c[1], !.sizeY = c[2], !.gameLength = c[3],
                !.explosionRadius = c[4], !.bombTimer = c[5],
                !.players = ps] :
               s \in Strings, n \in U8s, c \in Settings,
               ps \in Maps(Players)}
              \cup {[WireDrawMessage EXCEPT
                       !.type = "Game", !.serverName = LongString,
                       !.sizeX = c[1], !.sizeY = c[2], !.gameLength = c[3],
                       !.turn = c[5], !.players = ps,
                       !.playerPositions = pp, !.blocks = bl, !.bombs = bo,
                       !.explosions = ex, !.scores = sc] :
                      c \in Settings, ps \in Maps({DataPlayer}),
                      pp \in Maps({<<0, WideU16>>}), bl \in Bags,
                      bo \in Lists(Bombs), ex \in Lists({<<WideU16, 0>>}),
                      sc \in Maps({WideU32})}

\* The state before a value is encoded: a value of one of families, and the
\* bytes that follow its encoding in the stream.
CodecConstructed(families, suffixes) ==
    /\ codecPc = "value"
    /\ codecFamily \in families
    /\ codecValue \in Values(codecFamily)
    /\ codecSuffix \in suffixes
    /\ codecBytes = <<>>
    /\ codecDecoded = Undecoded

\* The places of a tag in the messages: the class of the message, the bytes
\* received before the tag, and the greatest enumerator of the tag's
\* enumeration.  The tags of the four messages, of the direction of a Move,
\* and of the first and of the second event of a Turn.
TagPlaces ==
    {[family |-> "Client", prefix |-> <<>>, greatest |-> 3],
     [family |-> "Client", prefix |-> <<3>>, greatest |-> 3],
     [family |-> "Server", prefix |-> <<>>, greatest |-> 4],
     [family |-> "Server", prefix |-> <<3, 0, 1, 0, 0, 0, 1>>, greatest |-> 3],
     [family |-> "Server",
      prefix |-> <<3, 0, 1, 0, 0, 0, 2, 3, 0, 1, 0, 1>>, greatest |-> 3],
     [family |-> "Input", prefix |-> <<>>, greatest |-> 2],
     [family |-> "Input", prefix |-> <<2>>, greatest |-> 3],
     [family |-> "Draw", prefix |-> <<>>, greatest |-> 1]}

\* The state when the bytes of a message with one of tags at one of
\* TagPlaces, and the bytes that follow the tag, are in the receiver's
\* buffer.
TagReceived(tags, followings) ==
    /\ codecPc = "encoded"
    /\ codecValue \in {[place |-> p, tag |-> t] : p \in TagPlaces, t \in tags}
    /\ codecFamily = codecValue.place.family
    /\ codecSuffix \in followings
    /\ codecBytes = codecValue.place.prefix \o <<codecValue.tag>>
                       \o codecSuffix
    /\ codecDecoded = Undecoded

\* The state before a Join with a --player-name, or a Hello with a
\* --server-name, of one of lengths bytes is encoded.
StringConstructed(lengths) ==
    /\ codecPc = "value"
    /\ codecFamily \in {"Client", "Server"}
    /\ \E n \in lengths :
          codecValue =
              IF codecFamily = "Client"
              THEN [DataClientMessage EXCEPT !.type = "Join",
                                             !.name = [i \in 1 .. n |-> 1]]
              ELSE [WireServerMessage EXCEPT
                      !.type = "Hello", !.serverName = [i \in 1 .. n |-> 1]]
    /\ codecSuffix = <<>>
    /\ codecBytes = <<>>
    /\ codecDecoded = Undecoded

\* No message is encoded.
NoCodec ==
    /\ codecPc = "none"
    /\ codecFamily = "Client"
    /\ codecValue = DataClientMessage
    /\ codecSuffix = <<>>
    /\ codecBytes = <<>>
    /\ codecDecoded = Undecoded

\* buffer << message: the bytes of the message reach the receiver's buffer,
\* before those that follow.
CodecEncode ==
    /\ codecPc = "value"
    /\ codecBytes' = EncodeMessage(codecFamily, codecValue) \o codecSuffix
    /\ codecPc' = "encoded"
    /\ UNCHANGED <<codecFamily, codecValue, codecSuffix, codecDecoded,
                   guiVars, clientVars, simVars, cfgVars, threadVars, serverVars>>

\* buffer >> message, into a default-constructed object.
CodecDecode ==
    /\ codecPc = "encoded"
    /\ codecDecoded' = DecodeMessage(codecFamily, codecBytes,
                                     Fresh(codecFamily))
    /\ codecPc' = "decoded"
    /\ UNCHANGED <<codecFamily, codecValue, codecSuffix, codecBytes,
                   guiVars, clientVars, simVars, cfgVars, threadVars, serverVars>>

\* -------------------------------------------------- client: listenToGUI
\* The client's listenToGUI thread: it receives a datagram from the GUI,
\* decodes it into its DataInputMessage, and under variablesMutex translates
\* it and writes the DataClientMessage to the server's socket.

\* A translation that forwards the message in every state.
ForwardInputMessage(out, in, st, name) ==
    IF in.type = "Move"
    THEN [out EXCEPT !.type = "Move", !.direction = in.direction]
    ELSE [out EXCEPT !.type = in.type]

\* Client::processInputMessage: outClientMessage after it.
ProcessInputMessage(out, in, st, name) ==
    IF st = "Lobby"
    THEN [out EXCEPT !.type = "Join", !.name = name]
    ELSE CASE in.type = "PlaceBomb" -> [out EXCEPT !.type = "PlaceBomb"]
           [] in.type = "PlaceBlock" -> [out EXCEPT !.type = "PlaceBlock"]
           [] in.type = "Move" ->
                 [out EXCEPT !.type = "Move", !.direction = in.direction]

\* The state of the GUI listener after the constructors: it will receive
\* datagrams datagrams, and --player-name is one of names.
GuiConstructed(names, datagrams) ==
    /\ playerName \in names
    /\ guiPc = "receive"
    /\ guiInMessage = DataInputMessage
    /\ outClientMessage = DataClientMessage
    /\ toServer = <<>>
    /\ guiDatagram = <<>>
    /\ guiLog = <<>>
    /\ datagramsLeft = datagrams

\* No GUI sends anything.
NoGui == GuiConstructed({<<>>}, 0)

\* GUIBufferIn >> inMessage: a datagram arrives and is decoded; BadRead and
\* BadType make the loop continue.
GuiReceive(d) ==
    /\ guiPc = "receive"
    /\ datagramsLeft > 0
    /\ datagramsLeft' = datagramsLeft - 1
    /\ LET r == DecodeInput(guiInMessage, d)
       IN  /\ guiInMessage' = r.msg
           /\ guiPc' = IF r.result = "ok" THEN "translate" ELSE "receive"
           /\ guiLog' = IF r.result = "ok"
                        THEN guiLog
                        ELSE Append(guiLog, [datagram |-> d,
                                             state |-> clientState,
                                             sent |-> <<>>])
    /\ guiDatagram' = d
    /\ UNCHANGED <<playerName, outClientMessage, toServer, clientVars,
                   codecVars, simVars, cfgVars, threadVars, serverVars>>

\* Under variablesMutex: processInputMessage, and the message is written to
\* the server's socket.
GuiTranslate ==
    /\ guiPc = "translate"
    /\ LET out == ProcessInputMessage(outClientMessage, guiInMessage,
                                      clientState, playerName)
       IN  /\ outClientMessage' = out
           /\ toServer' = Append(toServer, EncodeMessage("Client", out))
           /\ guiLog' = Append(guiLog, [datagram |-> guiDatagram,
                                        state |-> clientState,
                                        sent |-> EncodeMessage("Client", out)])
    /\ guiPc' = "receive"
    /\ UNCHANGED <<playerName, guiInMessage, guiDatagram, datagramsLeft,
                   clientVars, codecVars, simVars, cfgVars, threadVars, serverVars>>

\* ------------------------------------------------- simulation: the actions
\* The fields of the client's state the fold works on.
ClientVariables ==
    [state |-> clientState, draw |-> outDrawMessage,
     activeBombs |-> activeBombs, destroyedPlayers |-> destroyedPlayers,
     destroyedBlocks |-> destroyedBlocks]

\* The state of the game and of the client after the constructors, for a
\* server configured with a board of one of the sizes xs times ys, an
\* explosion radius, a bomb timer, a number of initial blocks and a seed of
\* the given sets; the clients will send inputs messages.
GameConstructed(xs, ys, radii, timers, initials, seeds, inputs) ==
    /\ sizeX \in xs
    /\ sizeY \in ys
    /\ explosionRadius \in radii
    /\ bombTimer \in timers
    /\ initialBlocks \in initials
    /\ simPc = "accept"
    /\ position = <<>>
    /\ blocks = {}
    /\ bombs = {}
    /\ nextBombID = 0
    /\ playerScores = <<>>
    /\ playersByPosition = [c \in Board |-> {}]
    /\ blocksDestroyed = {}
    /\ playersDestroyed = {}
    /\ simTurn = 0
    /\ seed \in seeds
    /\ wire = <<>>
    /\ turnLog = <<>>
    /\ blocksBefore = {}
    /\ positionBefore = <<>>
    /\ inputsLeft = inputs
    /\ clientState = "Lobby"
    /\ inServerMessage = DataServerMessage
    /\ outDrawMessage = DataDrawMessage
    /\ activeBombs = <<>>
    /\ destroyedPlayers = {}
    /\ destroyedBlocks = {}
    /\ prevDrawMessage = DataDrawMessage
    /\ GUIBufferOut = <<>>

\* No game is simulated: the smallest board, and no inputs.
NoGame == GameConstructed({1}, {1}, {0}, {0}, {0}, {0}, 0)

\* The listener's Hello (ClientConnection's listener, line 692): the client
\* has connected.
SimHello ==
    /\ simPc = "accept"
    /\ simPc' = "collectPlayers"
    /\ wire' = <<[DataServerMessage EXCEPT
                     !.playerCount = playerCount, !.sizeX = sizeX,
                     !.sizeY = sizeY, !.gameLength = gameLength,
                     !.explosionRadius = explosionRadius,
                     !.bombTimer = bombTimer]>>
    /\ UNCHANGED <<position, blocks, bombs, nextBombID, playerScores,
                   playersByPosition, blocksDestroyed, playersDestroyed,
                   simTurn, seed, turnLog, blocksBefore, positionBefore,
                   inputsLeft, clientVars, guiVars, codecVars, cfgVars, threadVars,
                   serverVars>>

\* joinPlayer: a Join is accepted, the player gets the next ID.
SimJoinPlayer ==
    /\ simPc = "collectPlayers"
    /\ wire = <<>>
    /\ inputsLeft > 0
    /\ LET id == Cardinality(DOMAIN position)
       IN  /\ position' = position @@ (id :> <<0, 0>>)
           /\ wire' = <<[DataServerMessage EXCEPT
                            !.type = "AcceptedPlayer", !.playerID = id]>>
           /\ simPc' = IF id + 1 = playerCount
                       THEN "startGame"
                       ELSE "collectPlayers"
    /\ inputsLeft' = inputsLeft - 1
    /\ UNCHANGED <<blocks, bombs, nextBombID, playerScores,
                   playersByPosition, blocksDestroyed, playersDestroyed,
                   simTurn, seed, turnLog, blocksBefore, positionBefore,
                   clientVars, guiVars, codecVars, cfgVars, threadVars,
                   serverVars>>

\* The cells n successive pairs of random.next() calls yield, and the seed
\* they leave.
RECURSIVE RandomCells(_, _)
RandomCells(sd, n) ==
    IF n = 0
    THEN <<>>
    ELSE <<RandomCell(sd)>> \o RandomCells(AfterCell(sd), n - 1)

RECURSIVE AfterCells(_, _)
AfterCells(sd, n) == IF n = 0 THEN sd ELSE AfterCells(AfterCell(sd), n - 1)

\* The BlockPlaced events of startGame's second loop, for the cells
\* random.next() yields, and the blocks it inserts.
RECURSIVE InitialBlockEvents(_, _)
InitialBlockEvents(cells, bl) ==
    IF cells = <<>>
    THEN <<>>
    ELSE IF Head(cells) \in bl
    THEN InitialBlockEvents(Tail(cells), bl)
    ELSE <<[DataEvent EXCEPT !.type = "BlockPlaced",
                            !.position = Head(cells)]>>
             \o InitialBlockEvents(Tail(cells), bl \cup {Head(cells)})

\* The position runGame's loop is in with its turn counter at t.
SimTurnPc(t) == IF t <= gameLength THEN "runTurn" ELSE "endGame"

\* startGame: GameStarted and Turn 0.
SimStartGame ==
    /\ simPc = "startGame"
    /\ wire = <<>>
    /\ LET drawn == RandomCells(seed, playerCount)
           ps == [p \in PlayerIDs |-> drawn[p + 1]]
           cells == RandomCells(AfterCells(seed, playerCount), initialBlocks)
           events ==
               [i \in 1 .. playerCount |->
                   [DataEvent EXCEPT !.type = "PlayerMoved",
                                     !.playerID = i - 1,
                                     !.position = ps[i - 1]]]
                 \o InitialBlockEvents(cells, blocks)
       IN     /\ position' = ps
              /\ blocks' = blocks \cup Range(cells)
              /\ wire' = <<[DataServerMessage EXCEPT
                               !.type = "GameStarted",
                               !.players = PlayerIDs],
                           [DataServerMessage EXCEPT
                               !.type = "Turn", !.turn = 0,
                               !.events = events]>>
              /\ turnLog' = <<events>>
              /\ positionBefore' = ps
    /\ blocksBefore' = blocks
    /\ seed' = AfterCells(seed, playerCount + initialBlocks)
    /\ simTurn' = 1
    /\ simPc' = SimTurnPc(1)
    /\ UNCHANGED <<bombs, nextBombID, playerScores, playersByPosition,
                   blocksDestroyed, playersDestroyed, inputsLeft,
                   clientVars, guiVars, codecVars, cfgVars, threadVars,
                   serverVars>>

\* The pending messages among the inputs of a turn.
Pending(ms) == {p \in DOMAIN ms : ms[p] # "none"}

\* One iteration of runGame's loop: the explosions of the turn, then every
\* player's move, then the Turn message.
SimRunTurn ==
    /\ simPc = "runTurn"
    /\ wire = <<>>
    /\ \E ms \in [PlayerIDs -> Inputs] :
          LET s == TurnResult(simTurn, ms)
          IN  /\ Cardinality(Pending(ms)) <= inputsLeft
              /\ inputsLeft' = inputsLeft - Cardinality(s.consumed)
              /\ position' = s.position
              /\ blocks' = s.blocks
              /\ bombs' = s.bombs
              /\ nextBombID' = s.nextBombID
              /\ seed' = s.seed
              /\ playerScores' = s.playerScores
              /\ playersByPosition' = s.playersByPosition
              /\ blocksDestroyed' = s.blocksDestroyed
              /\ playersDestroyed' = s.playersDestroyed
              /\ wire' = <<[DataServerMessage EXCEPT
                               !.type = "Turn", !.turn = simTurn,
                               !.events = s.events]>>
              /\ turnLog' = Append(turnLog, s.events)
    /\ blocksBefore' = blocks
    /\ positionBefore' = position
    /\ simTurn' = NextTurn(simTurn)
    /\ simPc' = SimTurnPc(NextTurn(simTurn))
    /\ UNCHANGED <<clientVars, guiVars, codecVars, cfgVars, threadVars,
                   serverVars>>

\* The end of runGame: GameEnded with the scores.
SimEndGame ==
    /\ simPc = "endGame"
    /\ wire = <<>>
    /\ wire' = <<[DataServerMessage EXCEPT
                     !.type = "GameEnded", !.scores = playerScores]>>
    /\ simPc' = "clearGame"
    /\ UNCHANGED <<position, blocks, bombs, nextBombID, playerScores,
                   playersByPosition, blocksDestroyed, playersDestroyed,
                   simTurn, seed, turnLog, blocksBefore, positionBefore,
                   inputsLeft, clientVars, guiVars, codecVars, cfgVars, threadVars,
                   serverVars>>

\* clearGame, and mainLoop's return to collectPlayers.
SimClearGame ==
    /\ simPc = "clearGame"
    /\ position' = <<>>
    /\ blocks' = {}
    /\ playerScores' = <<>>
    /\ playersByPosition' = [c \in Board |-> {}]
    /\ bombs' = {}
    /\ simPc' = "collectPlayers"
    /\ UNCHANGED <<nextBombID, blocksDestroyed, playersDestroyed, simTurn,
                   seed, wire, turnLog, blocksBefore, positionBefore, inputsLeft,
                   clientVars, guiVars, codecVars, cfgVars, threadVars,
                   serverVars>>

\* A faulty listener, for the sensitivity of ClientStateMachine: it sends a
\* DrawMessage for GameStarted too.
SnapshotsAlways(out, in, draw) == Append(out, draw)

\* What listenToServer has sent to the GUI after the iteration that folded
\* in into draw: the DrawMessage, unless in is GameStarted.
Snapshots(out, in, draw) ==
    IF in.type # "GameStarted" THEN Append(out, draw) ELSE out

\* One iteration of listenToServer's loop: the next message is decoded into
\* inServerMessage and folded, and the DrawMessage is sent to the GUI.
ClientFold ==
    /\ wire # <<>>
    /\ LET in == Decode(inServerMessage, Head(wire))
           c == ProcessServerMessage(ClientVariables, in)
       IN  /\ inServerMessage' = in
           /\ clientState' = c.state
           /\ outDrawMessage' = c.draw
           /\ activeBombs' = c.activeBombs
           /\ destroyedPlayers' = c.destroyedPlayers
           /\ destroyedBlocks' = c.destroyedBlocks
    /\ prevDrawMessage' = outDrawMessage
    /\ GUIBufferOut' =
          Snapshots(GUIBufferOut, Decode(inServerMessage, Head(wire)),
                    ProcessServerMessage(
                        ClientVariables,
                        Decode(inServerMessage, Head(wire))).draw)
    /\ wire' = Tail(wire)
    /\ UNCHANGED <<simPc, position, blocks, bombs, nextBombID, playerScores,
                   playersByPosition, blocksDestroyed, playersDestroyed,
                   simTurn, seed, turnLog, blocksBefore, positionBefore,
                   inputsLeft, guiVars, codecVars, cfgVars, threadVars, serverVars>>

\* ------------------------------------------------- server: the mutexes
\* The mutexes of the server: Server::serverMutex, Server::forMessagesMutex,
\* and ClientConnection::inMessageMutex and ::forMessagesMutex of each
\* connection.
LockedConns == 0 .. (LockConns - 1)
ServerMutex == <<"Server::serverMutex", 0>>
ServerForMessagesMutex == <<"Server::forMessagesMutex", 0>>
InMessageMutex(c) == <<"inMessageMutex", c>>
ForMessagesMutex(c) == <<"forMessagesMutex", c>>
PerConnection(m) == m[1] \in {"inMessageMutex", "forMessagesMutex"}

\* The threads of the server that take its mutexes.
Engine == <<"mainLoop", 0>>
MainThread == <<"main", 0>>
Listener(c) == <<"listenToClient", c>>
Emitter(c) == <<"emitToClient", c>>
Threads ==
    {Engine, MainThread} \cup {Listener(c) : c \in LockedConns}
    \cup {Emitter(c) : c \in LockedConns}

Lock(m) == [op |-> "lock", mutex |-> m]
Unlock(m) == [op |-> "unlock", mutex |-> m]
\* A lock_guard or unique_lock on m in a scope that executes inner.
Guarded(m, inner) == <<Lock(m)>> \o inner \o <<Unlock(m)>>

\* collectPlayers' wait for a pending message; inside wait() the mutex is
\* released, so that the thread holds it only to test the predicate.
CollectWaitLocks == Guarded(ServerForMessagesMutex, <<>>)

\* collectPlayers extracts the message of connection c.
CollectExtractLocks(c) ==
    Guarded(InMessageMutex(c), Guarded(ServerForMessagesMutex, <<>>))

\* ClientConnection::pushMessage of connection c.
PushMessageLocks(c) == Guarded(ForMessagesMutex(c), <<>>)

\* pushToAllConnections over the connections cs of the clients map, in the
\* order of their IDs, from ID c on.
RECURSIVE PushToAllFrom(_, _)
PushToAllFrom(c, cs) ==
    IF c >= LockConns THEN <<>>
    ELSE (IF c \in cs THEN PushMessageLocks(c) ELSE <<>>)
         \o PushToAllFrom(c + 1, cs)

\* joinPlayer: the first player of a lobby starts the queue and pushes it to
\* all connections; for a later player the connections are only notified.
JoinPlayerLocks(first, cs) ==
    Guarded(ServerMutex, IF first THEN PushToAllFrom(0, cs) ELSE <<>>)

\* startGame, and the end of runGame: the queue is extended under serverMutex
\* and the connections are notified.
StartGameLocks == Guarded(ServerMutex, <<>>)

\* processPlayerMove for the player of connection c, whose message is pending
\* or not.
ProcessPlayerMoveLocks(c, pending) ==
    Guarded(InMessageMutex(c),
            IF pending THEN Guarded(ServerForMessagesMutex, <<>>) ELSE <<>>)

\* clearGame's loop over the connections cs from ID c on; the connections of
\* pend have a pending message.
RECURSIVE ClearFrom(_, _, _)
ClearFrom(c, cs, pend) ==
    IF c >= LockConns THEN <<>>
    ELSE (IF c \in cs THEN ProcessPlayerMoveLocks(c, c \in pend) ELSE <<>>)
         \o ClearFrom(c + 1, cs, pend)

\* clearGame.
ClearGameLocks(cs, pend) == Guarded(ServerMutex, ClearFrom(0, cs, pend))

\* listenToClient of connection c creates the next connection and pushes
\* Hello and the queue of the lobby or of the game to its own connection.
ListenerAttachLocks(c) ==
    Guarded(ServerMutex, PushMessageLocks(c) \o PushMessageLocks(c))

\* A faulty listener, for the sensitivity of LockDiscipline: it takes the
\* server's forMessagesMutex before the connection's inMessageMutex.
ListenerReceiveLocksOutermost(c, pending) ==
    Guarded(ServerForMessagesMutex, Guarded(InMessageMutex(c), <<>>))

\* listenToClient of connection c stores a message it received, while an
\* earlier one is pending or not.
ListenerReceiveLocks(c, pending) ==
    Guarded(InMessageMutex(c),
            IF pending THEN <<>> ELSE Guarded(ServerForMessagesMutex, <<>>))

\* listenToClient's catch block: the dummy head for the emitter, then the
\* withdrawal of the pending message.
ListenerCatchLocks(c, pending) ==
    PushMessageLocks(c) \o ProcessPlayerMoveLocks(c, pending)

\* emitToClient's loop body: the mutex is held from the test of the wait
\* predicate to the end of the body, the write to the socket included.
EmitLocks(c) == Guarded(ForMessagesMutex(c), <<>>)

\* Server::shutdown counts one more pending message to wake the engine.
ShutdownLocks == Guarded(ServerForMessagesMutex, <<>>)

\* The blocks of code with lock operations that the thread t executes, in any
\* order and with any outcome of the tests they depend on.
ScriptsOf(t) ==
    IF t = Engine
    THEN {CollectWaitLocks, StartGameLocks}
         \cup {CollectExtractLocks(c) : c \in LockedConns}
         \cup {JoinPlayerLocks(f, cs) :
                 f \in BOOLEAN, cs \in SUBSET LockedConns}
         \cup {ProcessPlayerMoveLocks(c, b) :
                 c \in LockedConns, b \in BOOLEAN}
         \cup {ClearGameLocks(cs, pend) :
                 cs \in SUBSET LockedConns, pend \in SUBSET LockedConns}
    ELSE IF t = MainThread THEN {ShutdownLocks}
    ELSE IF t[1] = "listenToClient"
    THEN {ListenerAttachLocks(t[2])}
         \cup {ListenerReceiveLocks(t[2], b) : b \in BOOLEAN}
         \cup {ListenerCatchLocks(t[2], b) : b \in BOOLEAN}
    ELSE {EmitLocks(t[2])}

\* The thread that holds the mutex m, if any.
Held(m) == \E t \in Threads : \E i \in DOMAIN locksHeld[t] : locksHeld[t][i] = m

\* No thread of the server is in a block of code that takes a mutex.
NoLocks ==
    /\ locksHeld = [t \in Threads |-> <<>>]
    /\ lockScript = [t \in Threads |-> <<>>]

\* The thread t enters a block of code.
LockBegin(t) ==
    /\ lockScript[t] = <<>>
    /\ \E script \in ScriptsOf(t) : lockScript' = [lockScript EXCEPT ![t] = script]
    /\ UNCHANGED <<locksHeld, clientThreadVars, cfgVars, simVars, clientVars,
                   guiVars, codecVars, serverVars>>

\* The thread t locks the next mutex of its block, which no thread holds.
LockAcquire(t) ==
    /\ lockScript[t] # <<>>
    /\ Head(lockScript[t]).op = "lock"
    /\ ~Held(Head(lockScript[t]).mutex)
    /\ locksHeld' = [locksHeld EXCEPT ![t] = Append(@, Head(lockScript[t]).mutex)]
    /\ lockScript' = [lockScript EXCEPT ![t] = Tail(@)]
    /\ UNCHANGED <<clientThreadVars, cfgVars, simVars, clientVars, guiVars,
                   codecVars, serverVars>>

\* The thread t leaves the scope of its innermost guard.
LockRelease(t) ==
    /\ lockScript[t] # <<>>
    /\ Head(lockScript[t]).op = "unlock"
    /\ locksHeld' = [locksHeld EXCEPT ![t] =
                        SelectSeq(@, LAMBDA m : m # Head(lockScript[t]).mutex)]
    /\ lockScript' = [lockScript EXCEPT ![t] = Tail(@)]
    /\ UNCHANGED <<clientThreadVars, cfgVars, simVars, clientVars, guiVars,
                   codecVars, serverVars>>

\* ------------------------------------------------- client: the threads
\* What a failing operation of a worker thread throws: a RobotsException
\* (BadRead at the end of the TCP stream, BadType for a bad tag, BadWrite for
\* a datagram that does not fit the buffer) or boost's system_error (any
\* other socket error).
ClientErrors == {"RobotsException", "system_error"}

\* The client's process after main has started both worker threads.
ClientStarted ==
    /\ variablesMutex = "free"
    /\ GUIListener = "receive"
    /\ serverListener = "receive"
    /\ clientMain = "wait"
    /\ clientExceptionPtr = "null"
    /\ clientSockets = "open"

\* No client process.
NoClientThreads ==
    /\ variablesMutex = "free"
    /\ GUIListener = "none"
    /\ serverListener = "none"
    /\ clientMain = "none"
    /\ clientExceptionPtr = "null"
    /\ clientSockets = "open"

NoThreads == NoLocks /\ NoClientThreads

\* The process has not ended.
ClientRunning == clientMain \in {"wait", "shutdown", "joinGUI", "joinServer"}

\* variablesMutex once the guard of the thread t is destroyed.
Unlocked(t) == IF variablesMutex = t THEN "free" ELSE variablesMutex

\* listenToGUI receives a datagram it can decode.  (A datagram that it cannot
\* decode is dropped and the thread receives again.)
GUIListenerReceive ==
    /\ ClientRunning
    /\ GUIListener = "receive"
    /\ clientSockets = "open"
    /\ GUIListener' = "lock"
    /\ UNCHANGED <<variablesMutex, serverListener, clientMain,
                   clientExceptionPtr, clientSockets, lockVars, cfgVars,
                   simVars, clientVars, guiVars, codecVars, serverVars>>

\* listenToGUI constructs the lock_guard on variablesMutex.
GUIListenerLock ==
    /\ ClientRunning
    /\ GUIListener = "lock"
    /\ variablesMutex = "free"
    /\ variablesMutex' = "GUIListener"
    /\ GUIListener' = "translate"
    /\ UNCHANGED <<serverListener, clientMain, clientExceptionPtr,
                   clientSockets, lockVars, cfgVars, simVars, clientVars,
                   guiVars, codecVars, serverVars>>

\* processInputMessage.
GUIListenerTranslate ==
    /\ ClientRunning
    /\ GUIListener = "translate"
    /\ GUIListener' = "send"
    /\ UNCHANGED <<variablesMutex, serverListener, clientMain,
                   clientExceptionPtr, clientSockets, lockVars, cfgVars,
                   simVars, clientVars, guiVars, codecVars, serverVars>>

\* serverBufferOut << message: the write to the server's socket ends; the
\* guard is destroyed at the end of the loop body.
GUIListenerSend ==
    /\ ClientRunning
    /\ GUIListener = "send"
    /\ clientSockets = "open"
    /\ variablesMutex' = Unlocked("GUIListener")
    /\ GUIListener' = "receive"
    /\ UNCHANGED <<serverListener, clientMain, clientExceptionPtr,
                   clientSockets, lockVars, cfgVars, simVars, clientVars,
                   guiVars, codecVars, serverVars>>

\* An operation of listenToGUI throws e: the receive from the GUI's socket
\* or the write to the server's socket (both throw system_error), or any
\* operation once main has closed the sockets.  The guard is destroyed and
\* the catch block posts the exception.
GUIListenerFail(e) ==
    /\ ClientRunning
    /\ GUIListener \in {"receive", "send"}
    /\ e = "system_error"
    /\ variablesMutex' = Unlocked("GUIListener")
    /\ clientExceptionPtr' = e
    /\ GUIListener' = "done"
    /\ UNCHANGED <<serverListener, clientMain, clientSockets, lockVars,
                   cfgVars, simVars, clientVars, guiVars, codecVars,
                   serverVars>>

\* listenToServer decodes a message of the server.
ServerListenerReceive ==
    /\ ClientRunning
    /\ serverListener = "receive"
    /\ clientSockets = "open"
    /\ serverListener' = "lock"
    /\ UNCHANGED <<variablesMutex, GUIListener, clientMain,
                   clientExceptionPtr, clientSockets, lockVars, cfgVars,
                   simVars, clientVars, guiVars, codecVars, serverVars>>

\* listenToServer constructs the lock_guard on variablesMutex.
ServerListenerLock ==
    /\ ClientRunning
    /\ serverListener = "lock"
    /\ variablesMutex = "free"
    /\ variablesMutex' = "serverListener"
    /\ serverListener' = "fold"
    /\ UNCHANGED <<GUIListener, clientMain, clientExceptionPtr,
                   clientSockets, lockVars, cfgVars, simVars, clientVars,
                   guiVars, codecVars, serverVars>>

\* processServerMessage; for GameStarted nothing is sent and the loop body
\* ends.
ServerListenerFold(gameStarted) ==
    /\ ClientRunning
    /\ serverListener = "fold"
    /\ IF gameStarted
       THEN /\ serverListener' = "receive"
            /\ variablesMutex' = Unlocked("serverListener")
       ELSE /\ serverListener' = "send"
            /\ UNCHANGED variablesMutex
    /\ UNCHANGED <<GUIListener, clientMain, clientExceptionPtr,
                   clientSockets, lockVars, cfgVars, simVars, clientVars,
                   guiVars, codecVars, serverVars>>

\* GUIBufferOut << outMessage: the datagram is sent; the guard is destroyed
\* at the end of the loop body.
ServerListenerSend ==
    /\ ClientRunning
    /\ serverListener = "send"
    /\ clientSockets = "open"
    /\ variablesMutex' = Unlocked("serverListener")
    /\ serverListener' = "receive"
    /\ UNCHANGED <<GUIListener, clientMain, clientExceptionPtr,
                   clientSockets, lockVars, cfgVars, simVars, clientVars,
                   guiVars, codecVars, serverVars>>

\* An operation of listenToServer throws e: the read from the server's
\* socket (BadRead at the end of the stream, BadType for a bad tag,
\* system_error otherwise) or the send to the GUI (BadWrite, system_error),
\* or any operation once main has closed the sockets (system_error).
ServerListenerFail(e) ==
    /\ ClientRunning
    /\ serverListener \in {"receive", "send"}
    /\ clientSockets = "closed" => e = "system_error"
    /\ variablesMutex' = Unlocked("serverListener")
    /\ clientExceptionPtr' = e
    /\ serverListener' = "done"
    /\ UNCHANGED <<GUIListener, clientMain, clientSockets, lockVars,
                   cfgVars, simVars, clientVars, guiVars, codecVars,
                   serverVars>>

\* SIGINT: handleInterrupt posts an InterruptedException.
ClientInterrupt ==
    /\ clientMain = "wait"
    /\ clientExceptionPtr' = "RobotsException"
    /\ UNCHANGED <<variablesMutex, GUIListener, serverListener, clientMain,
                   clientSockets, lockVars, cfgVars, simVars, clientVars,
                   guiVars, codecVars, serverVars>>

\* main wakes and rethrows the posted exception: its handler catches a
\* RobotsException; any other exception leaves main and the process is
\* terminated.
ClientMainWake ==
    /\ clientMain = "wait"
    /\ clientExceptionPtr # "null"
    /\ clientMain' = IF clientExceptionPtr = "RobotsException"
                     THEN "shutdown" ELSE "terminated"
    /\ UNCHANGED <<variablesMutex, GUIListener, serverListener,
                   clientExceptionPtr, clientSockets, lockVars, cfgVars,
                   simVars, clientVars, guiVars, codecVars, serverVars>>

\* main's handler shuts down and closes both sockets.
ClientMainShutdown ==
    /\ clientMain = "shutdown"
    /\ clientSockets' = "closed"
    /\ clientMain' = "joinGUI"
    /\ UNCHANGED <<variablesMutex, GUIListener, serverListener,
                   clientExceptionPtr, lockVars, cfgVars, simVars,
                   clientVars, guiVars, codecVars, serverVars>>

\* GUIListener->join(); serverListener->join(); return 1.
ClientMainJoin ==
    /\ \/ /\ clientMain = "joinGUI"
          /\ GUIListener = "done"
          /\ clientMain' = "joinServer"
       \/ /\ clientMain = "joinServer"
          /\ serverListener = "done"
          /\ clientMain' = "exit1"
    /\ UNCHANGED <<variablesMutex, GUIListener, serverListener,
                   clientExceptionPtr, clientSockets, lockVars, cfgVars,
                   simVars, clientVars, guiVars, codecVars, serverVars>>

\* ------------------------------------------------------------------- Spec
\* What the listener and emitter threads of healthy connections, the engine
\* thread and the clients do.
Serve ==
    \/ \E c \in Conns : Accept(c)
    \/ \E c \in Conns : ListenerInit1(c)
    \/ \E c \in Conns : ListenerInit2(c)
    \/ \E c \in Conns : \E m \in ClientMessages : Receive(c, m)
    \/ \E c \in Conns : EmitTake(c)
    \/ \E c \in Conns : EmitBlock(c)
    \/ \E c \in Conns : EmitWrite(c)
    \/ CollectWait
    \/ CollectPick
    \/ CollectPend
    \/ CollectExtract
    \/ JoinLock
    \/ JoinPush
    \/ StartGame
    \/ RunTurn
    \/ EndGame
    \/ ClearGame

\* The server with clients that connect, send MaxMsgs messages and stay
\* connected; no SIGINT is delivered.
Init ==
    /\ Constructed(MaxConn - 1, MaxMsgs, 0, GameLengths)
    /\ NoGame
    /\ NoGui
    /\ NoCodec
    /\ NoThreads

Next == Serve

Spec == Init /\ [][Next]_vars

\* The server with clients of which MaxFails fail; they send FailMsgs
\* messages; no SIGINT is delivered.
InitFail ==
    /\ Constructed(MaxConn - 1, FailMsgs, MaxFails, GameLengths)
    /\ NoGame
    /\ NoGui
    /\ NoCodec
    /\ NoThreads

NextFail ==
    \/ Serve
    \/ \E c \in Conns : ListenerFail(c)
    \/ \E c \in Conns : ListenerCatch(c)
    \/ \E c \in Conns : EmitFail(c)
    \/ CollectErase
    \/ MainWake

SpecFail == InitFail /\ [][NextFail]_vars

\* The server interrupted by SIGINT at any moment: ShutdownConns clients
\* connect, send MaxMsgs messages and do not fail by themselves.
InitShutdown ==
    /\ Constructed(ShutdownConns, MaxMsgs, 0, GameLengths)
    /\ NoGame
    /\ NoGui
    /\ NoCodec
    /\ NoThreads

NextShutdown ==
    \/ Serve
    \/ \E c \in Conns : ListenerFail(c)
    \/ \E c \in Conns : ListenerCatch(c)
    \/ \E c \in Conns : EmitFail(c)
    \/ CollectErase
    \/ UseAfterClear
    \/ Sigint
    \/ MainWake
    \/ ShutdownSockets
    \/ ShutdownFlag
    \/ ShutdownClear
    \/ MainJoin

SpecShutdown == InitShutdown /\ [][NextShutdown]_vars

\* The server configured with the shortest or the longest game: LongGameConns
\* clients connect and send LongGameMsgs messages; the Turn messages of
\* runGame are not kept (TurnLoop stands for RunTurn).
InitTurns ==
    /\ Constructed(LongGameConns, LongGameMsgs, 0, ExtremeGameLengths)
    /\ NoGame
    /\ NoGui
    /\ NoCodec
    /\ NoThreads

NextTurns ==
    \/ \E c \in Conns : Accept(c)
    \/ \E c \in Conns : ListenerInit1(c)
    \/ \E c \in Conns : ListenerInit2(c)
    \/ \E c \in Conns : \E m \in ClientMessages : Receive(c, m)
    \/ \E c \in Conns : EmitTake(c)
    \/ \E c \in Conns : EmitBlock(c)
    \/ \E c \in Conns : EmitWrite(c)
    \/ CollectWait
    \/ CollectPick
    \/ CollectPend
    \/ CollectExtract
    \/ JoinLock
    \/ JoinPush
    \/ StartGame
    \/ TurnLoop
    \/ EndGame
    \/ ClearGame

SpecTurns == InitTurns /\ [][NextTurns]_vars

\* The lobby under fair scheduling: a client connects, sends a move and may
\* fail at any moment; the next client connects and sends Join.  The game has
\* no turn.  The engine thread and every listener and emitter thread of the
\* server that can take a step eventually takes one.
InitJoin ==
    /\ Constructed(JoinMsgs, JoinMsgs, MaxFails, {0})
    /\ NoGame
    /\ NoGui
    /\ NoCodec
    /\ NoThreads

\* The n-th connection sends the n-th message: the last one sends Join, the
\* ones before it send a move.
JoinSent == JoinMsgs - msgsLeft
JoinSequence(n) == IF n = JoinMsgs THEN "Join" ELSE "PlaceBomb"

NextJoin ==
    \/ \E c \in Conns : Accept(c)
    \/ \E c \in Conns : ListenerInit1(c)
    \/ \E c \in Conns : ListenerInit2(c)
    \/ \E c \in {JoinSent} : Receive(c, JoinSequence(JoinSent + 1))
    \/ \E c \in Conns : EmitTake(c)
    \/ \E c \in Conns : EmitBlock(c)
    \/ \E c \in Conns : EmitWrite(c)
    \/ CollectWait
    \/ CollectPick
    \/ CollectPend
    \/ CollectExtract
    \/ JoinLock
    \/ JoinPush
    \/ StartGame
    \/ EndGame
    \/ ClearGame
    \/ \E c \in Conns : ListenerFail(c)
    \/ \E c \in Conns : ListenerCatch(c)
    \/ \E c \in Conns : EmitFail(c)
    \/ CollectErase
    \/ MainWake

\* The steps of the engine thread (mainLoop).
EngineStep ==
    \/ CollectWait
    \/ CollectPick
    \/ CollectPend
    \/ CollectExtract
    \/ CollectErase
    \/ JoinLock
    \/ JoinPush
    \/ StartGame
    \/ RunTurn
    \/ EndGame
    \/ ClearGame

\* The steps of the listener and of the emitter thread of the connection c
\* that wait for nothing but the server's own threads (a write to a closed
\* socket fails by itself).
ListenerStep(c) == ListenerInit1(c) \/ ListenerInit2(c) \/ ListenerCatch(c)
EmitterStep(c) ==
    EmitTake(c) \/ EmitBlock(c) \/ EmitWrite(c) \/ EmitFail(c)

FairScheduling ==
    /\ WF_vars(EngineStep)
    /\ \A c \in Conns : WF_vars(ListenerStep(c))
    /\ \A c \in Conns : WF_vars(EmitterStep(c))
    /\ WF_vars(MainWake)

SpecJoin == InitJoin /\ [][NextJoin]_vars /\ FairScheduling

\* The ClientMessages a client sends, in the order in which it sends them,
\* each different from the others: a Join and then moves.
MessageSequence ==
    <<"Join", "PlaceBomb", "PlaceBlock", "Up", "Right", "Down", "Left",
      "Join again">>
\* The number of ClientMessages sent so far in the run.  The clients send in
\* turns: the n-th message of the run comes from the client of the
\* connection Sender(n) and is NthMessage(n).
MessagesSent == PendingMsgs - msgsLeft
Sender(n) == (n - 1) % PendingConns
NthMessage(n) == MessageSequence[((n - 1) \div PendingConns) + 1]
\* The number of the message that the client of the connection c sent last,
\* 0 if it has sent none.
LastOf(c) ==
    IF \E n \in 1 .. MessagesSent : Sender(n) = c
    THEN CHOOSE n \in 1 .. MessagesSent :
            /\ Sender(n) = c
            /\ \A k \in n + 1 .. MessagesSent : Sender(k) # c
    ELSE 0

\* The server in a game of PendingTurns turns: PendingConns clients connect
\* and send PendingMsgs messages in all, at any moment.
InitPending ==
    /\ Constructed(PendingConns, PendingMsgs, 0, {PendingTurns})
    /\ NoGame
    /\ NoGui
    /\ NoCodec
    /\ NoThreads

NextPending ==
    \/ \E c \in Conns : Accept(c)
    \/ \E c \in Conns : ListenerInit1(c)
    \/ \E c \in Conns : ListenerInit2(c)
    \/ \E c \in {Sender(MessagesSent + 1)} :
          Receive(c, NthMessage(MessagesSent + 1))
    \/ \E c \in Conns : EmitTake(c)
    \/ \E c \in Conns : EmitBlock(c)
    \/ \E c \in Conns : EmitWrite(c)
    \/ CollectWait
    \/ CollectPick
    \/ CollectPend
    \/ CollectExtract
    \/ JoinLock
    \/ JoinPush
    \/ StartGame
    \/ RunTurn
    \/ EndGame
    \/ ClearGame

SpecPending == InitPending /\ [][NextPending]_vars

\* The game the engine simulates and the client folds: one client's view of
\* a server with a board of MaxSizeX times MaxSizeY cells and games of
\* GameTurns turns; the clients send GameInputs messages, and the client
\* reads every message before the engine builds the next.
InitGame ==
    /\ Constructed(0, 0, 0, {GameTurns})
    /\ GameConstructed({MaxSizeX}, {MaxSizeY}, 1 .. MaxRadius,
                       0 .. MaxBombTimer, 0 .. MaxInitialBlocks,
                       0 .. MaxSeed, GameInputs)
    /\ NoGui
    /\ NoCodec
    /\ NoThreads

NextGame ==
    \/ SimHello
    \/ SimJoinPlayer
    \/ SimStartGame
    \/ SimRunTurn
    \/ SimEndGame
    \/ SimClearGame
    \/ ClientFold

SpecGame == InitGame /\ [][NextGame]_vars

\* The start of a game with up to MaxStartBlocks initial blocks, and its
\* StartTurns turns.
InitStart ==
    /\ Constructed(0, 0, 0, {StartTurns})
    /\ GameConstructed({MaxSizeX}, {MaxSizeY}, {1}, {1}, 0 .. MaxStartBlocks,
                       0 .. MaxSeed, StartInputs)
    /\ NoGui
    /\ NoCodec
    /\ NoThreads

SpecStart == InitStart /\ [][NextGame]_vars

\* The client between its GUI and the server: the GUI sends GuiDatagrams
\* datagrams of at most MaxDatagramLen bytes while a server with the smallest
\* board runs games of one turn.
InitGui ==
    /\ Constructed(0, 0, 0, {1})
    /\ GameConstructed({1}, {1}, {1}, {1}, {0}, {0}, GuiInputs)
    /\ GuiConstructed(PlayerNames, GuiDatagrams)
    /\ NoCodec
    /\ NoThreads

NextGui ==
    \/ NextGame
    \/ \E d \in Datagrams : GuiReceive(d)
    \/ GuiTranslate

SpecGui == InitGui /\ [][NextGui]_vars

\* A value of each class of message is encoded and decoded.
InitCodec ==
    /\ Constructed(0, 0, 0, {0})
    /\ NoGame
    /\ NoGui
    /\ NoThreads
    /\ CodecConstructed(Families, {<<>>, <<1, 0>>})

NextCodec ==
    \/ CodecEncode
    \/ CodecDecode

SpecCodec == InitCodec /\ [][NextCodec]_vars

\* Messages with any tag up to MaxTag at one place are decoded.
InitTags ==
    /\ Constructed(0, 0, 0, {0})
    /\ NoGame
    /\ NoGui
    /\ NoThreads
    /\ TagReceived(0 .. MaxTag,
                   {<<>>, <<1>>, [i \in 1 .. MaxFollowing |-> 0]})

NextTags == CodecDecode

SpecTags == InitTags /\ [][NextTags]_vars

\* A Join and a Hello with a string of up to MaxStringLen + MaxExcess bytes
\* are encoded and decoded.
InitStrings ==
    /\ Constructed(0, 0, 0, {0})
    /\ NoGame
    /\ NoGui
    /\ NoThreads
    /\ StringConstructed(0 .. MaxStringLen + MaxExcess)

SpecStrings == InitStrings /\ [][NextCodec]_vars

\* The mutexes of the server: every thread executes its blocks of code that
\* take mutexes, one lock operation at a time.
InitLocks ==
    /\ Constructed(0, 0, 0, {0})
    /\ NoGame
    /\ NoGui
    /\ NoCodec
    /\ NoLocks
    /\ NoClientThreads

NextLocks ==
    \/ \E t \in Threads : LockBegin(t)
    \/ \E t \in Threads : LockAcquire(t)
    \/ \E t \in Threads : LockRelease(t)

SpecLocks == InitLocks /\ [][NextLocks]_vars

\* The threads of the client: messages and datagrams arrive, any operation
\* on a socket may fail, SIGINT may arrive.
InitClientThreads ==
    /\ Constructed(0, 0, 0, {0})
    /\ NoGame
    /\ NoGui
    /\ NoCodec
    /\ NoLocks
    /\ ClientStarted

NextClientThreads ==
    \/ GUIListenerReceive
    \/ GUIListenerLock
    \/ GUIListenerTranslate
    \/ GUIListenerSend
    \/ \E e \in ClientErrors : GUIListenerFail(e)
    \/ ServerListenerReceive
    \/ ServerListenerLock
    \/ \E b \in BOOLEAN : ServerListenerFold(b)
    \/ ServerListenerSend
    \/ \E e \in ClientErrors : ServerListenerFail(e)
    \/ ClientInterrupt
    \/ ClientMainWake
    \/ ClientMainShutdown
    \/ ClientMainJoin

SpecClientThreads == InitClientThreads /\ [][NextClientThreads]_vars


\* ------------------------------------------------------------- properties
\* C1: fanout order.  Of two broadcast nodes that a connection's emitter
\* wrote, the one written first is not the one appended to the queue later:
\* every emitter writes the broadcasts in the order of the queue.
FanoutOrder ==
    \A c \in Conns : \A i, j \in DOMAIN sent[c] :
        (i < j /\ IsQ(sent[c][i]) /\ IsQ(sent[c][j]))
            => sent[c][i] <= sent[c][j]

\* The positions at which connection c's emitter wrote c's Hello.
HelloAt(c) == {i \in DOMAIN sent[c] : sent[c][i] = H(c)}

\* C2: no drop, no duplicate.  What a connection's emitter wrote after the
\* connection's Hello is the run of consecutive queue nodes that starts at
\* the node the listener attached the connection to.
NoDropNoDup ==
    \A c \in Conns : \A i \in HelloAt(c) : \A j \in DOMAIN sent[c] :
        j > i => sent[c][j] = attached[c] + (j - i - 1)

\* An emitter has written its Hello and behind it a GameEnded followed by the
\* first AcceptedPlayer of the next lobby.
NoDropNoDupWitness ==
    \E c \in Conns : \E i \in HelloAt(c) : \E j \in DOMAIN sent[c] :
        /\ j > i + 1
        /\ IsQ(sent[c][j - 1]) /\ IsQ(sent[c][j])
        /\ queue[sent[c][j - 1]].type = "GameEnded"
        /\ queue[sent[c][j]].type = "AcceptedPlayer"

\* C3: no missed wakeup.  No emitter is blocked in wait while its head has a
\* successor: an append never leaves an emitter waiting for a later notify.
NoMissedWakeup ==
    \A c \in Conns : epc[c] = "waiting" => NextOf(head[c]) = NULL

\* C4: Hello first and once.  The first message a connection's emitter writes
\* is the connection's Hello, and everything it writes after it is the run of
\* consecutive queue nodes from the attached node on (no second Hello, no
\* dummy, the current lobby's AcceptedPlayers in order, each once).
HelloFirst ==
    \A c \in Conns :
        sent[c] # <<>> =>
            /\ sent[c][1] = H(c)
            /\ \A i \in 2 .. Len(sent[c]) :
                   sent[c][i] = attached[c] + (i - 2)

\* C5: late-join replay.  A connection accepted during a game writes nothing
\* in front of its Hello: its emitter has written nothing while its listener
\* has not yet pushed Hello and the game's GameStarted node.
LateJoinReplay ==
    \A c \in Conns : acceptedInGame[c] => sent[c] = <<>>

\* C6: a slow client does not stall the engine.  The engine is never in
\* pushToAllConnections in front of a connection whose forMessagesMutex is
\* held by an emitter that is inside its socket write.
EngineNotBlockedByEmitter ==
    ~ /\ gpc = "jpPush"
      /\ pushIterator \in clients
      /\ epc[pushIterator] = "writing"

\* The AcceptedPlayer nodes of game g.
AcceptedPlayersOf(g) ==
    {k \in 1 .. Len(queue) :
        queue[k].type = "AcceptedPlayer" /\ GameOf(k) = g}

\* The players admitted to each lobby: at most playerCount, their IDs counting
\* from 0 in the order of the queue, no connection twice.
JoinAdmissionState ==
    /\ Len(joinedPlayers) <= playerCount
    /\ \A g \in 1 .. CurGame :
           /\ Cardinality(AcceptedPlayersOf(g)) <= playerCount
           /\ \A k \in AcceptedPlayersOf(g) :
                  queue[k].num = Cardinality({j \in AcceptedPlayersOf(g) : j < k})
           /\ \A k, l \in AcceptedPlayersOf(g) :
                  k # l => queue[k].conn # queue[l].conn

\* A step admits a player only for a pending Join of a connection that has
\* not joined, and appends an AcceptedPlayer only for the player just
\* admitted, with the player's index as its ID.
JoinAdmissionStep ==
    /\ Len(joinedPlayers') > Len(joinedPlayers) =>
           /\ gpc = "cpExtract" /\ gpc' = "jpLock"
           /\ inMessagePending[currentIterator]
           /\ inMessage[currentIterator] = "Join"
           /\ ~joined[currentIterator]
           /\ joinedPlayers' = Append(joinedPlayers, currentIterator)
    /\ (gpc' = "jpLock" /\ gpc # "jpLock") =>
           Len(joinedPlayers') = Len(joinedPlayers) + 1
    /\ (gpc = "jpLock" /\ gpc' # "jpLock") =>
           queue' = Append(queue,
                           Msg("AcceptedPlayer", Len(joinedPlayers) - 1,
                               joinedPlayers[Len(joinedPlayers)]))
    /\ (Len(queue') > Len(queue)
            /\ queue'[Len(queue')].type = "AcceptedPlayer") => gpc = "jpLock"

\* C7: join admission.  In every lobby each connection is admitted at most
\* once and only by a Join, the k-th admitted player gets ID k-1, one
\* AcceptedPlayer is appended per admitted player, and no more than
\* playerCount players are admitted.
JoinAdmission == []JoinAdmissionState /\ [][JoinAdmissionStep]_vars

\* In the lobby of a two-player server every message has been consumed and
\* one player is admitted: a connection that had joined sent another Join, or
\* a message was not a Join, and no AcceptedPlayer was appended for it.
JoinAdmissionWitness ==
    /\ playerCount = 2
    /\ msgsLeft = 0
    /\ pendingMessages = 0
    /\ gpc = "cpWait"
    /\ Len(queue) = 1
    /\ \E c \in Conns : joined[c] /\ inMessage[c] = "Join"

\* The index of the first node of the game that the k-th node belongs to.
GameStart(k) ==
    LET ended == {j \in 1 .. (k - 1) : queue[j].type = "GameEnded"}
    IN IF ended = {} THEN 1
       ELSE 1 + (CHOOSE j \in ended : \A i \in ended : i <= j)

\* The broadcast sequence of the games whose length is in GameLengths (the
\* turn counter stays below its width): the nodes of every game are, by their
\* offset in the game, AcceptedPlayer 0 .. playerCount-1, GameStarted,
\* Turn 0 .. gameLength, GameEnded; and the state is Game exactly from the
\* GameStarted of a game until its GameEnded.
BroadcastSequence ==
    /\ \A k \in 1 .. Len(queue) :
           LET off == k - GameStart(k)
               m == queue[k]
           IN /\ off < playerCount =>
                     m.type = "AcceptedPlayer" /\ m.num = off
              /\ off = playerCount => m.type = "GameStarted"
              /\ (off > playerCount /\ off <= playerCount + 1 + gameLength) =>
                     m.type = "Turn" /\ m.num = off - playerCount - 1
              /\ off = playerCount + gameLength + 2 => m.type = "GameEnded"
    /\ state = "Game" <=>
           \E k \in 1 .. Len(queue) :
               /\ queue[k].type = "GameStarted"
               /\ \A j \in (k + 1) .. Len(queue) : queue[j].type # "GameEnded"

\* A game with a Turn 1 has ended and the next game is running.
BroadcastSequenceWitness ==
    /\ gameLength = 1
    /\ CurGame = 2
    /\ state = "Game"

\* C8: every turn number once.  The number of the Turn that runGame's loop is
\* about to append is one of 1 .. gameLength, which the game has not used
\* (Turn 0 is startGame's): the loop never comes back to a number it has
\* passed, and it ends with GameEnded after Turn gameLength.
TurnNumbersOnce == gpc = "runTurn" => turn \in 1 .. gameLength

\* C9: failure isolation.  With clients that fail and no SIGINT, the engine
\* thread never ends with an exception.
FailureIsolation == engineException = "none"

\* C10: shutdown terminates.  Once SIGINT is delivered, a state in which no
\* thread can take a step is a state in which the process has ended.
ShutdownTerminates ==
    (sigint /\ ~ENABLED NextShutdown) => proc \in {"exited", "aborted"}

\* C11: exit status on interrupt.  A server that SIGINT stopped has ended
\* with exit status 1: main has returned, and it has returned 1.
InterruptExitStatus ==
    (sigint /\ mpc = "exit") => ExitStatus = 1

\* ------------------------------------------------- properties of the game
\* The events of the Turn message the engine built last.
LastEvents == turnLog[Len(turnLog)]
\* The number of that Turn.
LastTurn == Len(turnLog) - 1
\* The BombExploded events among them.
LastExplosions ==
    {i \in DOMAIN LastEvents : LastEvents[i].type = "BombExploded"}

\* The cell of the bomb with this ID: the position of its BombPlaced event.
PlacedAt(id) ==
    LET placed ==
            {k \in (DOMAIN turnLog) \X (1 .. 2 * MaxPlayers + MaxInitialBlocks) :
                /\ k[2] \in DOMAIN turnLog[k[1]]
                /\ turnLog[k[1]][k[2]].type = "BombPlaced"
                /\ turnLog[k[1]][k[2]].bombID = id}
        k == CHOOSE k \in placed : TRUE
    IN  turnLog[k[1]][k[2]].position

\* The four axial directions.
Axes == {<<0 - 1, 0>>, <<1, 0>>, <<0, 0 - 1>>, <<0, 1>>}
\* The cell at distance d from p in direction a.
Along(p, a, d) == <<p[1] + d * a[1], p[2] + d * a[2]>>

\* The bomb's own cell and, in each direction, the cells of the board at
\* distance 1 .. explosionRadius with no block of bl strictly between them
\* and the bomb.
RayCells(p, bl) ==
    {p} \cup
    {c \in Board :
        \E a \in Axes : \E d \in 1 .. explosionRadius :
            /\ c = Along(p, a, d)
            /\ \A j \in 1 .. (d - 1) : Along(p, a, j) \notin bl}

\* C12 as stated: explosion rays.  The cells of every explosion of a turn
\* are the bomb's cell and, in each of the four directions, the cells at
\* distance 1 .. explosionRadius inside the board up to and including the
\* first one with a block, the blocks being those at the beginning of the
\* turn.
ExplosionRays ==
    simPc \in {"runTurn", "endGame"} =>
        \A i \in LastExplosions :
            Range(LastEvents[i].cells) =
                RayCells(PlacedAt(LastEvents[i].bombID), blocksBefore)

\* C12, amended: the same, unless the bomb's own cell holds a block at the
\* beginning of the turn; then the bomb's cell is the only explosion cell.
ExplosionRaysFromFreeCell ==
    simPc \in {"runTurn", "endGame"} =>
        \A i \in LastExplosions :
            LET p == PlacedAt(LastEvents[i].bombID)
            IN  Range(LastEvents[i].cells) =
                    IF p \in blocksBefore THEN {p} ELSE RayCells(p, blocksBefore)

\* A bomb on a free cell has exploded, and a block has stopped one of its
\* rays short of a cell of the board within the radius.
ExplosionRaysWitness ==
    /\ simPc \in {"runTurn", "endGame"}
    /\ \E i \in LastExplosions :
          LET p == PlacedAt(LastEvents[i].bombID)
          IN  /\ p \notin blocksBefore
              /\ LastEvents[i].blocksDestroyed # <<>>
              /\ \E a \in Axes : \E d \in 1 .. explosionRadius :
                    /\ Along(p, a, d) \in Board
                    /\ Along(p, a, d) \notin Range(LastEvents[i].cells)

\* The cells on which a block is placed in the last turn.
LastBlocksPlaced ==
    {LastEvents[i].position :
        i \in {j \in DOMAIN LastEvents : LastEvents[j].type = "BlockPlaced"}}

\* C13: what an explosion destroys.  Every bomb that explodes in a turn
\* lists in playersDestroyed exactly the players whose position at that time
\* is one of its explosion cells, and in blocksDestroyed exactly the blocks
\* on its explosion cells; the listed players are in the turn's
\* destroyed-players set, and the listed blocks are gone from the block set
\* unless a player places a block there in the same turn.
DestroyedOnExplosionCells ==
    simPc \in {"runTurn", "endGame"} =>
        \A i \in LastExplosions :
            LET cells == Range(LastEvents[i].cells)
                hit == {p \in PlayerIDs : positionBefore[p] \in cells}
            IN  /\ Range(LastEvents[i].playersDestroyed) = hit
                /\ hit \subseteq playersDestroyed
                /\ Range(LastEvents[i].blocksDestroyed) =
                       cells \cap blocksBefore
                /\ (cells \cap blocksBefore) \cap blocks
                       \subseteq LastBlocksPlaced

\* The events of the game so far, as pairs of a turn number and an index
\* into the events of that Turn.
LoggedEvents ==
    {k \in (0 .. LastTurn) \X (1 .. 2 * MaxPlayers + MaxInitialBlocks) :
        k[2] \in DOMAIN turnLog[k[1] + 1]}
Logged(k) == turnLog[k[1] + 1][k[2]]

\* C14: bomb timing.  A bomb placed in turn T explodes exactly once, in
\* Turn T + bombTimer: every Turn built so far holds one BombExploded for its
\* ID if it is Turn T + bombTimer, and none otherwise.
BombTiming ==
    simPc \in {"runTurn", "endGame"} =>
        \A k \in LoggedEvents :
            Logged(k).type = "BombPlaced" =>
                \A t \in 0 .. LastTurn :
                    Cardinality({j \in LoggedEvents :
                                    /\ j[1] = t
                                    /\ Logged(j).type = "BombExploded"
                                    /\ Logged(j).bombID = Logged(k).bombID})
                        = IF t = k[1] + bombTimer THEN 1 ELSE 0

\* C15: event order.  Turn 0 holds one PlayerMoved per player, in ascending
\* order of player ID, and then BlockPlaced events only.  In every later Turn
\* the BombExploded events come first, and the other events are the players',
\* at most one of each player, in ascending order of player ID.
EventOrder ==
    simPc \in {"runTurn", "endGame"} =>
        \A t \in 0 .. LastTurn :
            LET ev == turnLog[t + 1]
            IN  IF t = 0
                THEN /\ Len(ev) >= playerCount
                     /\ \A i \in DOMAIN ev :
                           IF i <= playerCount
                           THEN /\ ev[i].type = "PlayerMoved"
                                /\ ev[i].playerID = i - 1
                           ELSE ev[i].type = "BlockPlaced"
                ELSE /\ \A i, j \in DOMAIN ev :
                           (i < j /\ ev[j].type = "BombExploded")
                               => ev[i].type = "BombExploded"
                     /\ \A i \in DOMAIN ev :
                           ev[i].type # "BombExploded" =>
                               /\ ev[i].by \in PlayerIDs
                               /\ ev[i].type = "PlayerMoved"
                                      => ev[i].playerID = ev[i].by
                     /\ \A i, j \in DOMAIN ev :
                           (/\ i < j
                            /\ ev[i].type # "BombExploded"
                            /\ ev[j].type # "BombExploded")
                               => ev[i].by < ev[j].by

\* Both players of a game have acted in one turn, and in the last turn an
\* explosion is followed by a player's event.
EventOrderWitness ==
    /\ simPc \in {"runTurn", "endGame"}
    /\ \E t \in 1 .. LastTurn :
          {turnLog[t + 1][i].by : i \in DOMAIN turnLog[t + 1]} = {0, 1}
    /\ \E i, j \in DOMAIN LastEvents :
          /\ i < j
          /\ LastEvents[i].type = "BombExploded"
          /\ LastEvents[j].type # "BombExploded"
    /\ Len(turnLog[1]) > playerCount

\* The client has folded every message sent so far, the last of them the
\* Turn the engine built last.
TurnFolded ==
    /\ simPc \in {"runTurn", "endGame"}
    /\ wire = <<>>
    /\ inServerMessage.type = "Turn"

\* The BombExploded events of the game so far name this bomb.
HasExploded(id) ==
    \E j \in LoggedEvents :
        Logged(j).type = "BombExploded" /\ Logged(j).bombID = id

\* C17: the client's bomb timers.  After the client has folded Turn t, a
\* bomb that BombPlaced announced in Turn T and that no BombExploded has
\* named is in activeBombs and in the draw's bombs with its position and the
\* timer bombTimer - (t - T); a bomb whose BombExploded has been folded is in
\* neither, and bombs holds nothing else.
ClientBombTimers ==
    TurnFolded =>
        /\ \A k \in LoggedEvents :
              Logged(k).type = "BombPlaced" =>
                  LET id == Logged(k).bombID
                      bomb == [position |-> Logged(k).position,
                               timer |-> bombTimer - (LastTurn - k[1])]
                  IN  IF HasExploded(id)
                      THEN id \notin DOMAIN activeBombs
                      ELSE /\ id \in DOMAIN activeBombs
                           /\ activeBombs[id] = bomb
                           /\ bomb \in Range(outDrawMessage.bombs)
        /\ Len(outDrawMessage.bombs) =
              Cardinality({k \in LoggedEvents :
                              /\ Logged(k).type = "BombPlaced"
                              /\ ~HasExploded(Logged(k).bombID)})

\* scores[p] of a scores map, 0 when absent.
ScoreOf(scores, p) == IF p \in DOMAIN scores THEN scores[p] ELSE 0

\* C18: the client's scores.  Folding a Turn leaves no player's score
\* smaller, and makes it greater, by exactly 1, exactly for the players that
\* the playersDestroyed of a BombExploded event of that Turn lists.
ClientScoresMonotone ==
    TurnFolded =>
        \A p \in PlayerIDs :
            ScoreOf(outDrawMessage.scores, p)
                = ScoreOf(prevDrawMessage.scores, p)
                    + IF p \in DestroyedPlayers(LastEvents) THEN 1 ELSE 0

\* C19: client and server agree.  After the client has folded Turn T, the
\* draw's blocks (as a set), playerPositions and scores are the server's
\* blocks, positions and playerScores after turn T.
ClientServerAgree ==
    TurnFolded =>
        /\ BagToSet(outDrawMessage.blocks) = blocks
        /\ \A p \in PlayerIDs :
              /\ p \in DOMAIN outDrawMessage.playerPositions
              /\ outDrawMessage.playerPositions[p] = position[p]
              /\ ScoreOf(outDrawMessage.scores, p) = ScoreOf(playerScores, p)

\* ------------------------------------------- properties of the GUI listener
\* The datagrams that are an InputMessage: PlaceBomb, PlaceBlock, or Move and
\* a direction.
WellFormedInput(d) ==
    \/ d \in {<<0>>, <<1>>}
    \/ \E k \in 0 .. 3 : d = <<2, k>>
\* The datagrams whose decoding fails: no byte, a type above Move, or Move
\* with no direction or a direction above Left.
MalformedInput(d) ==
    \/ d = <<>>
    \/ d[1] > 2
    \/ d[1] = 2 /\ (Len(d) < 2 \/ d[2] > 3)
\* The bytes of the ClientMessage the client is to send for the InputMessage
\* d in state st: Join is 0 and the name, PlaceBomb 1, PlaceBlock 2, Move 3
\* and the direction.
ExpectedClientMessage(st, d) ==
    IF st = "Lobby" THEN <<0, Len(playerName)>> \o playerName
    ELSE IF d[1] = 2 THEN <<3, d[2]>>
    ELSE <<d[1] + 1>>

\* C16: the client's translation of the GUI's messages.  For a well-formed
\* InputMessage handled in state Lobby the client sends Join(playerName)
\* whatever the message; in state Game it sends PlaceBomb for PlaceBomb,
\* PlaceBlock for PlaceBlock and Move(d) for Move(d); for a datagram whose
\* decoding fails it sends nothing, and the listener receives the next
\* datagram; nothing else is written to the server's socket.
GuiTranslation ==
    /\ \A i \in DOMAIN guiLog :
          /\ WellFormedInput(guiLog[i].datagram) =>
                guiLog[i].sent = ExpectedClientMessage(guiLog[i].state,
                                                       guiLog[i].datagram)
          /\ MalformedInput(guiLog[i].datagram) => guiLog[i].sent = <<>>
    /\ toServer = SelectSeq([i \in DOMAIN guiLog |-> guiLog[i].sent],
                            LAMBDA b : b # <<>>)
    /\ \/ guiPc = "receive"
       \/ guiPc = "translate" /\ ~MalformedInput(guiDatagram)

\* A Move received in state Game was sent on as the same Move, and a
\* datagram that failed to decode was dropped.
GuiTranslationWitness ==
    /\ \E i \in DOMAIN guiLog :
          /\ guiLog[i].state = "Game"
          /\ guiLog[i].datagram = <<2, 3>>
          /\ guiLog[i].sent = <<3, 3>>
    /\ \E i \in DOMAIN guiLog :
          /\ MalformedInput(guiLog[i].datagram)
          /\ guiLog[i].sent = <<>>
    /\ guiPc = "receive"

\* ------------------------------------------------- properties of the codec
\* C20: the codec's round trip.  For a value of each of the four classes of
\* message, with strings of at most 255 bytes and any lists and maps, the
\* decoding of the bytes of its encoding into a default-constructed object
\* succeeds, yields the value's type and the value's members of that type,
\* and leaves unread exactly the bytes that follow the encoding.
CodecRoundTrip ==
    codecPc = "decoded" =>
        /\ codecDecoded.ok
        /\ codecDecoded.val.type = codecValue.type
        /\ \A i \in DOMAIN EncodedMembers(codecFamily, codecValue.type) :
              LET name == EncodedMembers(codecFamily, codecValue.type)[i].name
              IN  codecDecoded.val[name] = codecValue[name]
        /\ codecDecoded.rest = codecSuffix

\* A Turn with MaxListLen events, one of them a BombExploded with destroyed
\* players and blocks, was decoded with bytes following it.
CodecRoundTripWitness ==
    /\ codecPc = "decoded"
    /\ codecFamily = "Server"
    /\ codecValue.type = "Turn"
    /\ codecValue.turn = WideU16
    /\ Len(codecValue.events) = MaxListLen
    /\ \E i \in DOMAIN codecValue.events :
          /\ codecValue.events[i].type = "BombExploded"
          /\ codecValue.events[i].playersDestroyed # <<>>
          /\ codecValue.events[i].blocksDestroyed # <<>>
    /\ codecSuffix # <<>>

\* C21: tag validation.  When the tag of a ClientMessage is above 3, of a
\* ServerMessage above 4, of an InputMessage above 2, of a DrawMessage above
\* 1, of an Event (in a Turn) above 3 or of a Direction (in a Move) above 3,
\* the decoding fails with BadType and none of the bytes after the tag is
\* read.
TagValidation ==
    (codecPc = "decoded" /\ codecValue.tag > codecValue.place.greatest) =>
        /\ ~codecDecoded.ok
        /\ codecDecoded.err = "BadType"
        /\ codecDecoded.rest = codecSuffix

\* The second event of a Turn had the tag 4, bytes followed it, and the
\* decoding failed with BadType.
TagValidationWitness ==
    /\ codecPc = "decoded"
    /\ codecFamily = "Server"
    /\ Len(codecValue.place.prefix) = 12
    /\ codecValue.tag = 4
    /\ Len(codecSuffix) = MaxFollowing
    /\ codecDecoded.err = "BadType"

\* The string of the message encoded: the name of a Join, the serverName of
\* a Hello.
EncodedString ==
    IF codecFamily = "Client" THEN codecValue.name ELSE codecValue.serverName

\* C22: the bound of a string's length.  The encoding of a string of more
\* than 255 bytes fails and no byte of it is sent; and the length byte of an
\* encoded string is the number of the string's bytes that follow it.
StringLengthBound ==
    codecPc # "value" =>
        /\ Len(EncodedString) > MaxStringLen => codecBytes = <<>>
        /\ codecBytes # <<>> => codecBytes[2] = Len(EncodedString)

\* ------------------------------------------ properties of the random draws
\* (a + b), 2 * a and a * b modulo RandomModulo, for a and b below it, with
\* no intermediate value above it.
AddMod[a \in Nat, b \in Nat] ==
    IF a >= RandomModulo - b THEN a - (RandomModulo - b) ELSE a + b
Twice[a \in Nat] == AddMod[a, a]
MulMod[a \in Nat, b \in Nat] ==
    IF b = 0
    THEN 0
    ELSE AddMod[Twice[MulMod[a, b \div 2]], IF b % 2 = 1 THEN a ELSE 0]
\* The k-th value drawn from the seed sd: sd * 48271^k mod (2^31 - 1).
Draw[sd \in Nat, k \in Nat] ==
    IF k = 0 THEN sd ELSE MulMod[Draw[sd, k - 1], RandomConstant]
\* The cell of the j-th pair of draws from sd: x first.
DrawnCell(sd, j) == <<Draw[sd, 2 * j - 1] % sizeX, Draw[sd, 2 * j] % sizeY>>
\* The initial blocks drawn whose cell no earlier initial block has.
FirstDrawn(sd) ==
    {j \in 1 .. initialBlocks :
        \A i \in 1 .. j - 1 :
            DrawnCell(sd, playerCount + i) # DrawnCell(sd, playerCount + j)}
\* Turn 0 of a game started with the seed sd: type, player and position of
\* its events.
ExpectedTurn0(sd) ==
    [i \in 1 .. playerCount |-> <<"PlayerMoved", i - 1, DrawnCell(sd, i)>>]
      \o [k \in 1 .. Cardinality(FirstDrawn(sd)) |->
            <<"BlockPlaced", 0,
              DrawnCell(sd, playerCount + Ascending(FirstDrawn(sd))[k])>>]
\* Type, player and position of the events of a Turn.
Summary(events) ==
    [i \in DOMAIN events |->
        <<events[i].type, events[i].playerID, events[i].position>>]

\* C23: the simulation is deterministic.  Every step leaves in seed a value
\* drawn from the seed before it by seed := seed * 48271 mod (2^31 - 1), so
\* the seed 0 stays 0; startGame sends GameStarted and a Turn 0 that has,
\* from 2 * (players + initial blocks) successive draws, a PlayerMoved per
\* player in ascending player ID (x drawn before y) and then a BlockPlaced
\* per initial block whose cell was not drawn for a block before; with the
\* seed 0, one player and one initial block Turn 0 is PlayerMoved(0, (0, 0)),
\* BlockPlaced((0, 0)).
DeterministicStep ==
    /\ \E k \in 0 .. 2 * (playerCount + MaxStartBlocks) :
          seed' = Draw[seed, k]
    /\ seed = 0 => seed' = 0
    /\ (simPc = "startGame" /\ simPc' # "startGame") =>
          /\ seed' = Draw[seed, 2 * (playerCount + initialBlocks)]
          /\ Len(wire') = 2
          /\ wire'[1].type = "GameStarted"
          /\ wire'[2].type = "Turn"
          /\ wire'[2].turn = 0
          /\ Summary(wire'[2].events) = ExpectedTurn0(seed)
          /\ (seed = 0 /\ playerCount = 1 /\ initialBlocks = 1) =>
                Summary(wire'[2].events)
                    = <<<<"PlayerMoved", 0, <<0, 0>>>>,
                        <<"BlockPlaced", 0, <<0, 0>>>>>>
Before(k, j) == k[1] < j[1] \/ (k[1] = j[1] /\ k[2] < j[2])

\* C24: bomb identifiers.  The BombPlaced events of the game so far carry
\* bombIDs that increase strictly in the order of emission, and the first of
\* them carries 0, in every game of the run; every BombExploded names a
\* bombID that a BombPlaced of the same game announced before it, and no two
\* BombExploded events name the same bombID.
BombIdentifiers ==
    simPc \in {"runTurn", "endGame"} =>
        /\ \A k, j \in LoggedEvents :
              (/\ Logged(k).type = "BombPlaced"
               /\ Logged(j).type = "BombPlaced"
               /\ Before(k, j)) => Logged(k).bombID < Logged(j).bombID
        /\ \A k \in LoggedEvents :
              (/\ Logged(k).type = "BombPlaced"
               /\ \A j \in LoggedEvents :
                     Logged(j).type = "BombPlaced" => ~Before(j, k))
                  => Logged(k).bombID = 0
        /\ \A j \in LoggedEvents :
              Logged(j).type = "BombExploded" =>
                  /\ \E k \in LoggedEvents :
                        /\ Logged(k).type = "BombPlaced"
                        /\ Logged(k).bombID = Logged(j).bombID
                        /\ Before(k, j)
                  /\ \A i \in LoggedEvents :
                        (/\ Logged(i).type = "BombExploded"
                         /\ Logged(i).bombID = Logged(j).bombID) => i = j

\* ------------------------------------------- properties of the turn counter
\* C25: the game always ends.  For every gameLength of 0 .. 65535 a step of
\* runGame's loop that stays in the loop moves the turn counter up by one,
\* and the step that follows Turn gameLength leaves the loop for GameEnded:
\* the counter never wraps into a number it has passed.
GameEndsStep ==
    /\ (gpc = "runTurn" /\ gpc' = "runTurn" /\ turn' # turn)
          => turn' = turn + 1
    /\ (gpc = "runTurn" /\ turn = gameLength /\ turn' # turn)
          => gpc' = "endGame"
GameAlwaysEnds == [][GameEndsStep]_vars

\* ------------------------------------- properties of the explosions' order
\* C26: bombs that explode in the same turn.  The BombExploded events of
\* every Turn come in the order in which the bombs were placed, ascending
\* bombID, whatever the bombs' positions.
ExplosionOrder ==
    simPc \in {"runTurn", "endGame"} =>
        \A k, j \in LoggedEvents :
            (/\ Logged(k).type = "BombExploded"
             /\ Logged(j).type = "BombExploded"
             /\ k[1] = j[1]
             /\ k[2] < j[2]) => Logged(k).bombID < Logged(j).bombID

\* C26, as the priority queue orders them: the BombExploded events of every
\* Turn come in ascending order of the bombs' positions (x, then y), and in
\* ascending bombID for bombs on the same cell.
ExplosionOrderByPosition ==
    simPc \in {"runTurn", "endGame"} =>
        \A k, j \in LoggedEvents :
            (/\ Logged(k).type = "BombExploded"
             /\ Logged(j).type = "BombExploded"
             /\ k[1] = j[1]
             /\ k[2] < j[2])
                => \/ PositionLess(PlacedAt(Logged(k).bombID),
                                   PlacedAt(Logged(j).bombID))
                   \/ /\ PlacedAt(Logged(k).bombID)
                            = PlacedAt(Logged(j).bombID)
                      /\ Logged(k).bombID < Logged(j).bombID

\* A Turn holds the BombExploded events of two bombs on different cells,
\* the one placed later first.
ExplosionOrderWitness ==
    /\ simPc \in {"runTurn", "endGame"}
    /\ \E k, j \in LoggedEvents :
          /\ Logged(k).type = "BombExploded"
          /\ Logged(j).type = "BombExploded"
          /\ k[1] = j[1]
          /\ k[2] < j[2]
          /\ Logged(k).bombID > Logged(j).bombID
          /\ PlacedAt(Logged(k).bombID) # PlacedAt(Logged(j).bombID)

\* ------------------------------------------------ properties of the moves
\* The events of a Turn that processPlayerMove pushed for the player p.
EventsBy(events, p) == {i \in DOMAIN events : events[i].by = p}
\* The number of BombPlaced events among the events.
BombsPlaced(events) ==
    Cardinality({i \in DOMAIN events : events[i].type = "BombPlaced"})
\* The players of D up to p.
UpTo(D, p) == {q \in D : q <= p}

\* C27: respawn.  Whatever the connections hold when runGame builds the next
\* Turn: a player that the explosions of the turn destroyed gets exactly one
\* event, a PlayerMoved to the cell of the next two draws (x, then y), which
\* becomes its position; its score goes up by exactly 1; its pending message
\* places no bomb and no block and moves nobody, and is consumed all the
\* same; the score of a player not destroyed in the turn stays as it was.
Respawn ==
    simPc = "runTurn" =>
        \A ms \in [PlayerIDs -> Inputs] :
            LET s == TurnResult(simTurn, ms)
                D == s.playersDestroyed
            IN  /\ D = DestroyedPlayers(s.events) \cap PlayerIDs
                /\ s.consumed = Pending(ms)
                /\ s.nextBombID = nextBombID + BombsPlaced(s.events)
                /\ \A p \in PlayerIDs \ D :
                      ScoreOf(s.playerScores, p) = ScoreOf(playerScores, p)
                /\ \A p \in D :
                      /\ ScoreOf(s.playerScores, p)
                            = ScoreOf(playerScores, p) + 1
                      /\ s.position[p]
                            = DrawnCell(seed, Cardinality(UpTo(D, p)))
                      /\ \E i \in DOMAIN s.events :
                            /\ EventsBy(s.events, p) = {i}
                            /\ s.events[i].type = "PlayerMoved"
                            /\ s.events[i].playerID = p
                            /\ s.events[i].position = s.position[p]

\* The explosions of the Turn built last destroyed a player, whose
\* PlayerMoved to another cell the Turn holds and whose score it raised.
RespawnWitness ==
    /\ simPc \in {"runTurn", "endGame"}
    /\ LastTurn >= 1
    /\ \E p \in playersDestroyed :
          /\ EventsBy(LastEvents, p) # {}
          /\ ScoreOf(playerScores, p) >= 1
          /\ position[p] # positionBefore[p]

\* The cell next to c in the direction d: Up is y + 1, Down is y - 1, Left
\* is x - 1, Right is x + 1.
Neighbour(c, d) ==
    <<c[1] + (IF d = "Right" THEN 1 ELSE IF d = "Left" THEN 0 - 1 ELSE 0),
      c[2] + (IF d = "Up" THEN 1 ELSE IF d = "Down" THEN 0 - 1 ELSE 0)>>
\* The cell is inside the board.
Inside(c) == c[1] \in 0 .. sizeX - 1 /\ c[2] \in 0 .. sizeY - 1
\* The blocks when processPlayerMove runs for the player p in the turn that
\* yields s: the blocks left by the explosions of the turn and the blocks
\* that players before p placed in it.
BlocksSeenBy(s, p) ==
    (blocks \ s.blocksDestroyed)
        \cup {s.events[i].position :
                i \in {j \in DOMAIN s.events :
                          /\ s.events[j].type = "BlockPlaced"
                          /\ s.events[j].by \in 0 .. p - 1}}

\* C28: movement.  Every player's position is a cell of the board.  Whatever
\* the connections hold when runGame builds the next Turn, the Move of a
\* player that the turn did not destroy changes the position to the
\* neighbouring cell and pushes one PlayerMoved with it if and only if that
\* cell is inside the board and holds no block; otherwise the position stays
\* and no event is pushed.
Movement ==
    /\ \A p \in DOMAIN position : Inside(position[p])
    /\ simPc = "runTurn" =>
          \A ms \in [PlayerIDs -> Inputs] :
              LET s == TurnResult(simTurn, ms)
              IN  \A p \in PlayerIDs \ s.playersDestroyed :
                      ms[p] \in Directions =>
                          LET to == Neighbour(position[p], ms[p])
                          IN  IF Inside(to) /\ to \notin BlocksSeenBy(s, p)
                              THEN /\ s.position[p] = to
                                   /\ \E i \in DOMAIN s.events :
                                         /\ EventsBy(s.events, p) = {i}
                                         /\ s.events[i].type = "PlayerMoved"
                                         /\ s.events[i].playerID = p
                                         /\ s.events[i].position = to
                              ELSE /\ s.position[p] = position[p]
                                   /\ EventsBy(s.events, p) = {}

\* The Turn built last holds the PlayerMoved of a player that it did not
\* destroy and that is now on another cell, in a game with a block.
MovementWitness ==
    /\ simPc \in {"runTurn", "endGame"}
    /\ LastTurn >= 1
    /\ blocks # {}
    /\ \E p \in PlayerIDs \ playersDestroyed :
          /\ position[p] # positionBefore[p]
          /\ \E i \in EventsBy(LastEvents, p) :
                LastEvents[i].type = "PlayerMoved"

\* -------------------------------------------- properties of the game's end
\* C29: end-of-game reset.  clearGame leaves the game state of a server that
\* has just been started: no position, no block, no bomb, no score, nobody
\* in playersByPosition, and the bomb ID counter at 0.
GameResetStep ==
    (simPc = "clearGame" /\ simPc' # "clearGame") =>
        /\ position' = <<>>
        /\ blocks' = {}
        /\ bombs' = {}
        /\ playerScores' = <<>>
        /\ \A c \in Board : playersByPosition'[c] = {}
        /\ nextBombID' = 0
GameReset == [][GameResetStep]_vars

\* --------------------------------------- properties of the pending message
\* C30: pending-message policy.  A connection holds one message and one
\* flag.  A pending message is the message its client sent last: of the
\* messages that arrive between two turns the turn acts on the most recent.
\* The flag is raised only by the arrival of a message, and every step that
\* builds a Turn leaves the flag of every player down: no message is acted
\* on in two turns, and a message that arrives after the player was
\* processed in a turn waits for the next.
PendingPolicyStep ==
    /\ \A c \in Conns :
          inMessagePending'[c] =>
              /\ LastOf(c)' > 0
              /\ inMessage'[c] = NthMessage(LastOf(c)')
    /\ \A c \in Conns :
          (~inMessagePending[c] /\ inMessagePending'[c])
              => msgsLeft' = msgsLeft - 1
    /\ (gpc = "runTurn" /\ turn' # turn) =>
          \A i \in DOMAIN joinedPlayers :
              ~inMessagePending'[joinedPlayers[i]]
PendingPolicy == [][PendingPolicyStep]_vars

\* Two messages arrived after the Join and before Turn 1 was built; Turn 1
\* acted on the later of them, the player's slot is empty, and the second
\* turn is about to be built.
PendingPolicyWitness ==
    /\ gpc = "runTurn"
    /\ turn = 2
    /\ \E i \in DOMAIN joinedPlayers :
          /\ ~inMessagePending[joinedPlayers[i]]
          /\ LastOf(joinedPlayers[i]) = 2 * PendingConns + 1
          /\ inMessage[joinedPlayers[i]] = MessageSequence[3]

\* ------------------------------------------ properties of pendingMessages
\* C31: pending counter.  Before shutdown, pendingMessages is the number of
\* connections whose inMessagePending flag is up, and it is never negative.
PendingCounter ==
    /\ pendingMessages >= 0
    /\ ~isShutdown =>
          pendingMessages = Cardinality({c \in Conns : inMessagePending[c]})

\* ------------------------------------------------- properties of the lobby
\* The connection c holds an unconsumed Join of a client that is not a
\* player, in a Lobby that is not full.
JoinWaits(c) ==
    /\ Running
    /\ state = "Lobby"
    /\ gpc \in {"cpWait", "cpPick", "cpPend", "cpExtract", "cpErase"}
    /\ Len(joinedPlayers) < playerCount
    /\ sock[c] = "open"
    /\ ~joined[c]
    /\ inMessagePending[c]
    /\ inMessage[c] = "Join"
\* The connection c is a player, or the lobby is full, or the connection is
\* no longer open, or its client has sent another message that replaced the
\* Join, or the process has ended.
JoinSettled(c) ==
    \/ \E i \in DOMAIN joinedPlayers : joinedPlayers[i] = c
    \/ Len(joinedPlayers) >= playerCount
    \/ sock[c] # "open"
    \/ inMessage[c] # "Join"
    \/ ~Running

\* C32: Join liveness.  Under fair scheduling, a connection that stays open
\* and holds an unconsumed Join in a Lobby that is not full is eventually a
\* player, unless the lobby fills with other players: the collector does not
\* stay blocked while a connection holds an unconsumed Join.
JoinLiveness == \A c \in Conns : JoinWaits(c) ~> JoinSettled(c)


\* C33: server lock discipline.  A thread that holds serverMutex together
\* with a per-connection mutex acquired serverMutex first; no thread holds two
\* per-connection mutexes at once; a thread that holds the server's
\* forMessagesMutex acquired it last; and no threads wait in a cycle, each for
\* a mutex that the next one holds.
HeldAt(t, m) == {i \in DOMAIN locksHeld[t] : locksHeld[t][i] = m}
PerConnectionHeld(t) ==
    {i \in DOMAIN locksHeld[t] : PerConnection(locksHeld[t][i])}
\* The thread t is about to lock a mutex that the thread u holds.
WaitsFor(t, u) ==
    /\ lockScript[t] # <<>>
    /\ Head(lockScript[t]).op = "lock"
    /\ HeldAt(u, Head(lockScript[t]).mutex) # {}
\* The threads that wait, directly or through at most k others, for t.
RECURSIVE WaitingFor(_, _)
WaitingFor(t, k) ==
    IF k = 0 THEN {u \in Threads : WaitsFor(u, t)}
    ELSE LET near == WaitingFor(t, k - 1)
         IN near \cup {u \in Threads : \E v \in near : WaitsFor(u, v)}
LockDiscipline ==
    /\ \A t \in Threads : \A i \in HeldAt(t, ServerMutex) :
          \A j \in PerConnectionHeld(t) : i < j
    /\ \A t \in Threads : Cardinality(PerConnectionHeld(t)) <= 1
    /\ \A t \in Threads : \A i \in HeldAt(t, ServerForMessagesMutex) :
          i = Len(locksHeld[t])
    /\ \A t \in Threads : t \notin WaitingFor(t, Cardinality(Threads))
\* clearGame holds serverMutex, a connection's inMessageMutex and the
\* server's forMessagesMutex while that connection's listener waits for its
\* inMessageMutex and another thread waits for serverMutex.
LockDisciplineWitness ==
    \E c \in LockedConns :
        /\ locksHeld[Engine] =
              <<ServerMutex, InMessageMutex(c), ServerForMessagesMutex>>
        /\ WaitsFor(Listener(c), Engine)
        /\ \E d \in LockedConns \ {c} : WaitsFor(Listener(d), Engine)


\* C37: client mutex and I/O.  A worker thread holds variablesMutex during
\* its whole translate or fold step and no longer holds it when it performs
\* the socket send that follows, so that a thread in a send never keeps the
\* other thread waiting for the mutex.
MutexReleasedBeforeSend ==
    /\ GUIListener = "translate" => variablesMutex = "GUIListener"
    /\ serverListener = "fold" => variablesMutex = "serverListener"
    /\ GUIListener = "send" => variablesMutex # "GUIListener"
    /\ serverListener = "send" => variablesMutex # "serverListener"
    /\ ~(GUIListener = "send" /\ serverListener = "lock"
         /\ variablesMutex # "free")
    /\ ~(serverListener = "send" /\ GUIListener = "lock"
         /\ variablesMutex # "free")

\* C38: the client's fatal-error path.  The process never ends by an
\* unhandled exception; when it ends, both sockets are closed and both worker
\* threads have ended (exit status 1); and once an error is posted it ends.
ClientFatalErrorPath ==
    /\ clientMain # "terminated"
    /\ clientMain = "exit1" =>
          /\ clientSockets = "closed"
          /\ GUIListener = "done"
          /\ serverListener = "done"


\* C34: the client's explosions.  After the client has folded Turn T the
\* draw's explosions are exactly the cells that the server's ray-casts
\* covered for the BombExploded events of Turn T: nothing of an earlier
\* turn, and nothing at all when the Turn has no BombExploded.
ClientExplosions ==
    TurnFolded =>
        BagToSet(outDrawMessage.explosions) =
            UNION {Range(LastEvents[i].cells) : i \in LastExplosions}


\* C39: the list the client folds.  After the client has decoded and folded
\* Turn T, the events of the object it decoded into are exactly the events
\* the server put into Turn T, with no element of an earlier message.
ClientTurnEvents ==
    TurnFolded => inServerMessage.events = LastEvents


\* C40: the scores of GameEnded.  Once the client has folded GameEnded, the
\* scores of the message have an entry for every player 0 .. playerCount - 1,
\* whose value is the number of turns of the game in which a BombExploded
\* destroyed that player, and the draw's scores are those of the message.
GameEndedScores ==
    (inServerMessage.type = "GameEnded" /\ wire = <<>>) =>
        /\ DOMAIN inServerMessage.scores = PlayerIDs
        /\ \A p \in PlayerIDs :
              inServerMessage.scores[p] =
                  Cardinality({t \in DOMAIN turnLog :
                                  p \in DestroyedPlayers(turnLog[t])})
        /\ outDrawMessage.scores = inServerMessage.scores


\* C35: the client's fold of AcceptedPlayer.  Once the client has folded
\* AcceptedPlayer for a player ID, in the first lobby or in a later one, the
\* draw's players hold that ID, its score is 0, and the players of the draw
\* are exactly the players accepted in the current lobby.
AcceptedPlayerFolded ==
    (inServerMessage.type = "AcceptedPlayer" /\ wire = <<>>) =>
        /\ inServerMessage.playerID \in outDrawMessage.players
        /\ inServerMessage.playerID \in DOMAIN outDrawMessage.scores
        /\ outDrawMessage.scores[inServerMessage.playerID] = 0
        /\ outDrawMessage.players = DOMAIN position


\* C36: the client's state machine.  The state starts as Lobby.  Folding
\* GameStarted makes it Game, copies the players, clears playerPositions and
\* blocks, sets the score of every player to 0 and sends nothing to the GUI;
\* folding GameEnded makes it Lobby, clears activeBombs, playerPositions,
\* blocks and bombs, takes the scores of the message and sends the
\* DrawMessage; folding any other message leaves the state and sends the
\* DrawMessage; no other step changes the state; and the type of the
\* DrawMessage always is the state.
SnapshotSent ==
    GUIBufferOut' = Append(GUIBufferOut, outDrawMessage')
ClientStateStep ==
    /\ outDrawMessage'.type = clientState'
    /\ IF wire # <<>> /\ wire' = Tail(wire)
       THEN CASE Head(wire).type = "GameStarted" ->
                    /\ clientState' = "Game"
                    /\ outDrawMessage'.players = Head(wire).players
                    /\ outDrawMessage'.playerPositions = <<>>
                    /\ outDrawMessage'.blocks = EmptyBag
                    /\ outDrawMessage'.scores =
                           [p \in Head(wire).players |-> 0]
                    /\ GUIBufferOut' = GUIBufferOut
              [] Head(wire).type = "GameEnded" ->
                    /\ clientState' = "Lobby"
                    /\ activeBombs' = <<>>
                    /\ outDrawMessage'.playerPositions = <<>>
                    /\ outDrawMessage'.blocks = EmptyBag
                    /\ outDrawMessage'.bombs = <<>>
                    /\ outDrawMessage'.scores = Head(wire).scores
                    /\ SnapshotSent
              [] OTHER ->
                    /\ clientState' = clientState
                    /\ SnapshotSent
       ELSE /\ clientState' = clientState
            /\ GUIBufferOut' = GUIBufferOut
ClientStateMachine ==
    /\ clientState = "Lobby"
    /\ outDrawMessage.type = "Lobby"
    /\ [][ClientStateStep]_vars
\* The client has been through a game and is in the lobby again: it has
\* folded GameStarted and GameEnded, and has sent a DrawMessage for every
\* message but GameStarted.
ClientStateMachineWitness ==
    /\ inServerMessage.type = "GameEnded"
    /\ wire = <<>>
    /\ clientState = "Lobby"
    /\ Len(GUIBufferOut) >= GameTurns + 4
    /\ \E i \in DOMAIN GUIBufferOut : GUIBufferOut[i].type = "Game"

====
